---------------------------- MODULE Spec2Model ----------------------------
(***************************************************************************)
(* A model of the organic-traffic forecasting pipeline: the CSV loader,    *)
(* the preprocessor, the analyzer, the Prophet model wrapper, the          *)
(* visualizer and main().                                                  *)
(*                                                                         *)
(* Conventions.                                                            *)
(*  - A DataFrame is a record [columns, rows]: the set of its column names *)
(*    and the sequence of its rows (records), in index order.              *)
(*  - A timestamp (ds) is a day ordinal, the number of days since          *)
(*    1970-01-01; the text of a Date cell is the triple <<y, m, d>>.       *)
(*  - Floating point values are exact rationals <<num, den>>, den > 0.     *)
(*  - pandas, Prophet, scipy and plotly are external; each is modelled at  *)
(*    its call site by the part of its documented behaviour the caller     *)
(*    relies on.                                                           *)
(*  - An operation that raises returns a record whose field "raised" names *)
(*    the exception; "none" means it returned normally.                    *)
(***************************************************************************)
EXTENDS Integers, Sequences, FiniteSets, TLC

VARIABLES
    \* ---- loader (src/src/data_loader.py) and the file system it reads
    fileExists,     \* whether the path names an existing file
    fileData,       \* the CSV at the path: [columns, rows]
    loader,         \* the TrafficDataLoader object held by the caller, or NoLoader
    readCount,      \* how many times read_csv was attempted
    loaderLast,     \* the last loader call: its inputs and its outcome
    \* ---- model wrapper (src/src/model.py)
    validation_days,     \* self.config.validation_days
    histDf,              \* the preprocessed table the caller holds: rows [ds, y]
    model,               \* self.model: NoneModel or a Prophet object
    validation_metrics,  \* self.validation_metrics
    forecast,            \* what the last successful predict returned
    fitCompleted,        \* whether some fit call has returned normally
    modelLast,           \* the last wrapper call: its inputs and its outcome
    \* ---- get_future_predictions on its own (src/src/model.py:68-87)
    fpForecast,          \* its argument forecast
    fpHistorical,        \* its argument historical_df
    fpOut,               \* what it returned, or NoCall
    \* ---- preprocessor (src/src/preprocessor.py)
    preIn,               \* the raw table handed to process
    preOut,              \* the last call's outcome, or NoCall
    \* ---- analyzer (src/src/analyzer.py)
    anDf,                \* the preprocessed table handed to analyze
    anOut,               \* what analyze returned, or NoCall
    \* ---- the pipeline (src/main.py)
    mainIn,              \* the data file and the arguments of main
    mainOut,             \* how the run ended, or NoCall
    \* ---- visualizer (src/src/visualizer.py)
    vizConfig,           \* self.config: the export options
    vizDf,               \* the preprocessed table handed to the visualizer
    vizAnalysis,         \* the result dictionary analyze produced for it
    vizFiles,            \* the files in self.output_dir
    vizCalls,            \* how many visualizer calls have been made
    vizLast,             \* the last visualizer call and its outcome
    \* ---- a caller holding the tables (src/main.py, src/example.py)
    rawDf,               \* df: the raw table handed to process
    procDf,              \* df_processed: the table the caller passes on
    produced,            \* what process returned, or NoCall
    outliersOut,         \* what handle_outliers returned, or NoCall
    analysisOut,         \* what the analyzer returned, or NoCall
    fittedOn             \* the last fit: its outcome and the rows it was given

loaderVars == <<fileExists, fileData, loader, readCount, loaderLast>>

modelVars == <<validation_days, histDf, model, validation_metrics, forecast,
               fitCompleted, modelLast>>

futureVars == <<fpForecast, fpHistorical, fpOut>>

preVars == <<preIn, preOut>>

analyzerVars == <<anDf, anOut>>

mainVars == <<mainIn, mainOut>>

vizVars == <<vizConfig, vizDf, vizAnalysis, vizFiles, vizCalls, vizLast>>

callerVars == <<rawDf, procDf, produced, outliersOut, analysisOut, fittedOn>>

vars == <<loaderVars, modelVars, futureVars, preVars, analyzerVars, mainVars, vizVars,
         callerVars>>

\* What a component's actions leave alone: the other components' variables.
notLoaderVars ==
    <<modelVars, futureVars, preVars, analyzerVars, mainVars, vizVars, callerVars>>
notModelVars ==
    <<loaderVars, futureVars, preVars, analyzerVars, mainVars, vizVars, callerVars>>
notFutureVars ==
    <<loaderVars, modelVars, preVars, analyzerVars, mainVars, vizVars, callerVars>>
notPreVars ==
    <<loaderVars, modelVars, futureVars, analyzerVars, mainVars, vizVars, callerVars>>
notAnalyzerVars ==
    <<loaderVars, modelVars, futureVars, preVars, mainVars, vizVars, callerVars>>
notMainVars ==
    <<loaderVars, modelVars, futureVars, preVars, analyzerVars, vizVars, callerVars>>
notVizVars ==
    <<loaderVars, modelVars, futureVars, preVars, analyzerVars, mainVars, callerVars>>
notCallerVars ==
    <<loaderVars, modelVars, futureVars, preVars, analyzerVars, mainVars, vizVars>>

----------------------------------------------------------------------------
(* Bounds of the model.                                                     *)

MaxRows == 2        \* rows of a CSV file in the loader specification
MaxReads == 2       \* read_csv attempts counted before the counter saturates
MaxHist == 3        \* rows of the table a model is fitted on
MaxDay == 3         \* the tables' dates are the day ordinals 1..MaxDay
MaxPeriods == 2     \* the largest forecast horizon requested from predict
MaxFcRows == 3      \* rows of a forecast handed to get_future_predictions
MaxHistDates == 2   \* rows of the historical table handed to it
MaxPreRows == 3     \* rows of the raw table handed to process
MaxSeries == 11     \* days of the series handed to the analyzer
MaxMainRows == 3    \* rows of the data file handed to main
MaxVizCalls == 2    \* calls made on one visualizer
MaxGrowthRows == 3  \* rows of the table whose growth is computed
MaxSplitRows == 10  \* rows of the table handed to _split_data
MaxOutlierRows == 12  \* rows of the series both outlier rules are applied to

----------------------------------------------------------------------------
(* Generic helpers.                                                         *)

Min(a, b) == IF a <= b THEN a ELSE b
Max(a, b) == IF a >= b THEN a ELSE b
Abs(a) == IF a < 0 THEN -a ELSE a

SeqsUpTo(S, n) == UNION {[1..k -> S] : k \in 0..n}

Range(s) == {s[i] : i \in DOMAIN s}

SetMax(S) == CHOOSE x \in S : \A y \in S : y <= x
SetMin(S) == CHOOSE x \in S : \A y \in S : x <= y

\* The elements of a finite set of integers in increasing order.
RECURSIVE SortedSeq(_)
SortedSeq(S) == IF S = {} THEN <<>> ELSE <<SetMin(S)>> \o SortedSeq(S \ {SetMin(S)})

RECURSIVE GCD(_, _)
GCD(a, b) == IF b = 0 THEN a ELSE GCD(b, a % b)

\* A float: a rational in lowest terms, NaN, or +/- infinity.
F(n, d) ==
    LET g == GCD(Abs(n), Abs(d))
        sg == IF d < 0 THEN -1 ELSE 1
    IN [k |-> "num", n |-> (sg * n) \div g, d |-> (sg * d) \div g]
NaN == [k |-> "nan", n |-> 0, d |-> 1]
Inf(sign) == [k |-> "inf", n |-> sign, d |-> 1]

\* a / b on floats holding the integers a and b, as numpy divides: x/0 is
\* an infinity, 0/0 is NaN, and nothing is raised.
FDivInt(a, b) ==
    IF b # 0 THEN F(a, b)
    ELSE IF a = 0 THEN NaN
    ELSE IF a > 0 THEN Inf(1) ELSE Inf(-1)

\* Float arithmetic: NaN propagates; a finite value over zero is an
\* infinity and 0/0 is NaN, as in numpy; nothing raises.
IsNum(a) == a.k = "num"
Sign(n) == IF n > 0 THEN 1 ELSE IF n < 0 THEN -1 ELSE 0
FAdd(a, b) ==
    IF a.k = "nan" \/ b.k = "nan" THEN NaN
    ELSE IF IsNum(a) /\ IsNum(b) THEN F(a.n * b.d + b.n * a.d, a.d * b.d)
    ELSE IF IsNum(a) THEN b
    ELSE IF IsNum(b) \/ a.n = b.n THEN a
    ELSE NaN
FNeg(a) == IF IsNum(a) THEN F(-a.n, a.d) ELSE IF a.k = "inf" THEN Inf(-a.n) ELSE NaN
FSub(a, b) == FAdd(a, FNeg(b))
FMul(a, b) ==
    IF a.k = "nan" \/ b.k = "nan" THEN NaN
    ELSE IF IsNum(a) /\ IsNum(b) THEN F(a.n * b.n, a.d * b.d)
    ELSE IF Sign(a.n) * Sign(b.n) = 0 THEN NaN
    ELSE Inf(Sign(a.n) * Sign(b.n))
FDiv(a, b) ==
    IF a.k = "nan" \/ b.k = "nan" THEN NaN
    ELSE IF IsNum(a) /\ IsNum(b)
         THEN (IF b.n # 0 THEN F(a.n * b.d, a.d * b.n)
               ELSE IF a.n = 0 THEN NaN ELSE Inf(Sign(a.n)))
    ELSE IF IsNum(a) THEN F(0, 1)
    ELSE IF IsNum(b) THEN Inf(a.n * (IF b.n < 0 THEN -1 ELSE 1))
    ELSE NaN

\* Series.mean(): the mean of the values that are not NaN; NaN if none is.
RECURSIVE FSum(_)
FSum(s) == IF s = <<>> THEN F(0, 1) ELSE FAdd(Head(s), FSum(Tail(s)))
FMean(s) ==
    LET present == SelectSeq(s, LAMBDA x : x.k # "nan")
    IN IF present = <<>> THEN NaN ELSE FDiv(FSum(present), F(Len(present), 1))

RECURSIVE SumSeq(_)
SumSeq(s) == IF s = <<>> THEN 0 ELSE Head(s) + SumSeq(Tail(s))

\* s[1..k] and s[k+1..], as pandas' df.iloc[:k] and df.iloc[k:] for k >= 0.
Head_k(s, k) == SubSeq(s, 1, Min(k, Len(s)))
Tail_k(s, k) == SubSeq(s, Min(k, Len(s)) + 1, Len(s))

----------------------------------------------------------------------------
(* The raw table: src/src/data_loader.py                                    *)

\* data_loader.py:34
required_columns == {"Date", "Clicks", "Impressions", "CTR", "Position"}

\* Column names a CSV header may hold: the required ones, an extra column,
\* and a header that differs from a required one by letter case only.
HeaderNames == required_columns \cup {"Extra", "date"}

NoLoader == [state |-> "none"]
NoCall == [op |-> "none"]

\* Rows of the files of the loader specification (their cells are not read
\* by the loader).
LoaderRows == {[Date |-> <<2024, 2, 28>>, Clicks |-> 1],
               [Date |-> <<2024, 2, 29>>, Clicks |-> 2]}

LoaderFiles == [columns : SUBSET HeaderNames, rows : SeqsUpTo(LoaderRows, MaxRows)]

\* pd.read_csv(path) on an existing, well-formed CSV: the header's names
\* are the columns, every data line is a row.             data_loader.py:32
read_csv(file) == [columns |-> file.columns, rows |-> file.rows]

\* data_loader.py:35   set(required_columns) - set(df.columns)
missing_columns_drop(df) == (required_columns \ {"Position"}) \ df.columns

missing_columns(df) == required_columns \ df.columns

\* data_loader.py:19   the constructor's check: raise iff not exists()
init_raises_never(exists) == FALSE

init_raises(exists) == ~exists

\* TrafficDataLoader.load, as a function of the file system.
\*   data_loader.py:32-41
load(exists, file) ==
    IF ~exists
    THEN [raised |-> "FileNotFoundError", missing |-> {}, df |-> [columns |-> {}, rows |-> <<>>]]
    ELSE LET df == read_csv(file)
             missing == missing_columns(df)
         IN IF missing # {}
            THEN [raised |-> "ValueError:MissingColumns", missing |-> missing,
                  df |-> [columns |-> {}, rows |-> <<>>]]
            ELSE [raised |-> "none", missing |-> {}, df |-> df]

----------------------------------------------------------------------------
(* Loader actions.                                                          *)

\* The environment puts the file (back) at the path; its content is the one
\* chosen initially.
RestoreFile ==
    /\ ~fileExists
    /\ fileExists' = TRUE
    /\ UNCHANGED <<fileData, loader, readCount, loaderLast, notLoaderVars>>

\* The environment removes the file.
DeleteFile ==
    /\ fileExists
    /\ fileExists' = FALSE
    /\ UNCHANGED <<fileData, loader, readCount, loaderLast, notLoaderVars>>

\* loader = TrafficDataLoader(path)                      data_loader.py:11-20
LoaderInit ==
    /\ IF init_raises(fileExists)
       THEN /\ loaderLast' = [op |-> "init", existed |-> fileExists,
                             raised |-> "FileNotFoundError", reads |-> readCount]
            /\ UNCHANGED loader
       ELSE /\ loaderLast' = [op |-> "init", existed |-> fileExists,
                             raised |-> "none", reads |-> readCount]
            /\ loader' = [state |-> "constructed", existedAtInit |-> fileExists]
    /\ UNCHANGED <<fileExists, fileData, readCount, notLoaderVars>>

\* df = loader.load()                                    data_loader.py:22-41
LoaderLoad ==
    /\ loader.state = "constructed"
    /\ LET r == load(fileExists, fileData)
       IN loaderLast' = [op |-> "load", existed |-> fileExists,
                         raised |-> r.raised, missing |-> r.missing, df |-> r.df]
    /\ readCount' = Min(readCount + 1, MaxReads)
    /\ UNCHANGED <<fileExists, fileData, loader, notLoaderVars>>

LoaderInitState ==
    /\ fileExists \in BOOLEAN
    /\ fileData \in LoaderFiles
    /\ loader = NoLoader
    /\ readCount = 0
    /\ loaderLast = NoCall

LoaderNext == RestoreFile \/ DeleteFile \/ LoaderInit \/ LoaderLoad

----------------------------------------------------------------------------
(* The model wrapper: src/src/model.py                                      *)

\* config.py:25   validation_days: int = 60
validation_days_default == 60

\* model.py:89-91  cross_validate's default initial window and horizon, days
cv_initial_default == 365
cv_horizon_default == 30

ValidationDaysChoices == {0, 1, validation_days_default}

\* The tables a model is fitted on: any sequence of at most MaxHist rows
\* dated 1..MaxDay (sorted or not, with or without gaps and repeats).
ModelRow(d) == [ds |-> d, y |-> 10 * d]
ModelTables == {[i \in DOMAIN t |-> ModelRow(t[i])] : t \in SeqsUpTo(1..MaxDay, MaxHist)}

DsOf(rows) == [i \in DOMAIN rows |-> rows[i].ds]

NoneModel == [kind |-> "None"]
NoForecast == [kind |-> "None"]
NoMetrics == [keys |-> {}, train_rows |-> 0, holdout_rows |-> 0]

\* What Prophet may predict for a date, in tenths: yhat, yhat_lower,
\* yhat_upper.  The numbers are the library's; the model lets each forecast
\* take any of these.
PredictedValues == {[yhat |-> 25, yhat_lower |-> 15, yhat_upper |-> 35],
                    [yhat |-> -4, yhat_lower |-> -16, yhat_upper |-> 6]}

\* Prophet(**params) and add_seasonality: a new, unfitted object.
\*   model.py:120-130
create_model == [kind |-> "Prophet", fitted |-> FALSE, history |-> <<>>]

\* Prophet.fit(rows[['ds','y']]) called at model.py:40 and :46: an object
\* is fitted once, on at least two rows; a fitted object keeps the dates
\* it was fitted on.
prophet_fit(m, rows) ==
    IF m.fitted THEN [raised |-> "Exception:FitOnce", m |-> m]
    ELSE IF Len(rows) < 2 THEN [raised |-> "ValueError:TooFewRows", m |-> m]
    ELSE [raised |-> "none",
          m |-> [kind |-> "Prophet", fitted |-> TRUE, history |-> DsOf(rows)]]

\* A split that holds out the last validation_days rows whatever their
\* share of the table.
split_data_last_days(df, vdays) ==
    LET train_size == Max(0, Len(df) - vdays)
    IN [train |-> Head_k(df, train_size), test |-> Tail_k(df, train_size)]

\* model.py:132-140   _split_data; int(len(df) * 0.8) is floor(4 len / 5)
split_data(df, vdays) ==
    LET train_size == Max(Len(df) - vdays, (4 * Len(df)) \div 5)
    IN [train |-> Head_k(df, train_size), test |-> Tail_k(df, train_size)]

\* model.py:142-154   _validate: the three metrics of the model fitted on
\* train, measured on test (their values are the library's predictions';
\* the model keeps which rows they were measured on).
validate(train_df, test_df) ==
    [keys |-> {"mae", "mape", "rmse"},
     train_rows |-> Len(train_df), holdout_rows |-> Len(test_df)]

\* The steps of a fit call, as recorded in its log.
StepSplit == <<"split">>
StepCreate == <<"create_model">>
StepFit(rows) == <<"fit", DsOf(rows)>>
StepValidate(test_df) == <<"validate", DsOf(test_df)>>

\* A fit that keeps the model fitted on the train part: no refit.
fit_train_only(self, df) ==
    LET sp == split_data(df, self.validation_days)
        f1 == prophet_fit(create_model, sp.train)
    IN IF f1.raised # "none"
       THEN [model |-> create_model, validation_metrics |-> self.validation_metrics,
             raised |-> f1.raised, log |-> <<StepSplit, StepCreate, StepFit(sp.train)>>]
       ELSE [model |-> f1.m,
             validation_metrics |-> IF Len(sp.test) > 0 THEN validate(sp.train, sp.test)
                                    ELSE self.validation_metrics,
             raised |-> "none",
             log |-> <<StepSplit, StepCreate, StepFit(sp.train)>>
                     \o (IF Len(sp.test) > 0 THEN <<StepValidate(sp.test)>> ELSE <<>>)]

\* A fit that empties the metrics when there is no holdout to measure.
fit_resets_metrics(self, df) ==
    LET sp == split_data(df, self.validation_days)
        f1 == prophet_fit(create_model, sp.train)
        vm == IF Len(sp.test) > 0 THEN validate(sp.train, sp.test) ELSE NoMetrics
        vlog == IF Len(sp.test) > 0 THEN <<StepValidate(sp.test)>> ELSE <<>>
        f2 == prophet_fit(create_model, df)
    IN IF f1.raised # "none"
       THEN [model |-> create_model, validation_metrics |-> self.validation_metrics,
             raised |-> f1.raised, log |-> <<StepSplit, StepCreate, StepFit(sp.train)>>]
       ELSE [model |-> IF f2.raised # "none" THEN create_model ELSE f2.m,
             validation_metrics |-> vm, raised |-> f2.raised,
             log |-> <<StepSplit, StepCreate, StepFit(sp.train)>> \o vlog
                     \o <<StepCreate, StepFit(df)>>]

\* model.py:27-48   TrafficProphetModel.fit.  self is [model,
\* validation_metrics, validation_days]; the result holds the object's
\* fields after the call, the exception raised, and the steps taken.  The
\* first assignment to self.model (:39) stands when the fit at :40 raises.
fit(self, df) ==
    LET sp == split_data(df, self.validation_days)
        \* :39-40   self.model = self._create_model(); self.model.fit(train)
        f1 == prophet_fit(create_model, sp.train)
        \* :42-43
        vm == IF Len(sp.test) > 0 THEN validate(sp.train, sp.test)
              ELSE self.validation_metrics
        vlog == IF Len(sp.test) > 0 THEN <<StepValidate(sp.test)>> ELSE <<>>
        \* :45-46   self.model = self._create_model(); self.model.fit(df)
        f2 == prophet_fit(create_model, df)
    IN IF f1.raised # "none"
       THEN [model |-> create_model, validation_metrics |-> self.validation_metrics,
             raised |-> f1.raised, log |-> <<StepSplit, StepCreate, StepFit(sp.train)>>]
       ELSE IF f2.raised # "none"
       THEN [model |-> create_model, validation_metrics |-> vm, raised |-> f2.raised,
             log |-> <<StepSplit, StepCreate, StepFit(sp.train)>> \o vlog
                     \o <<StepCreate, StepFit(df)>>]
       ELSE [model |-> f2.m, validation_metrics |-> vm, raised |-> "none",
             log |-> <<StepSplit, StepCreate, StepFit(sp.train)>> \o vlog
                     \o <<StepCreate, StepFit(df)>>]

\* Prophet.make_future_dataframe(periods), called at model.py:63: the dates
\* the object was fitted on, ascending and without repeats, then the
\* `periods` days after the last of them.
make_future_dataframe(m, periods) ==
    LET last == SetMax(Range(m.history))
    IN SortedSeq(Range(m.history)) \o [i \in 1..periods |-> last + i]

\* The columns of Prophet's forecast that this program reads.
ForecastColumns == {"ds", "yhat", "yhat_lower", "yhat_upper", "trend", "weekly", "yearly"}

\* Prophet.predict(future), called at model.py:64: one row per date.
prophet_predict(future, p) ==
    [columns |-> ForecastColumns,
     rows |-> [i \in DOMAIN future |->
                 [ds |-> future[i], yhat |-> p.yhat,
                  yhat_lower |-> p.yhat_lower, yhat_upper |-> p.yhat_upper]]]

\* model.py:60 and :103   if self.model is None
not_fitted_guard(m) == m = NoneModel

\* model.py:50-66   TrafficProphetModel.predict; p is what Prophet predicts.
predict(m, periods, p) ==
    IF not_fitted_guard(m) THEN [raised |-> "ValueError:NotFitted", forecast |-> NoForecast]
    ELSE IF ~m.fitted THEN [raised |-> "Exception:ProphetNotFit", forecast |-> NoForecast]
    ELSE [raised |-> "none",
          forecast |-> prophet_predict(make_future_dataframe(m, periods), p)]

\* model.py:89-118  TrafficProphetModel.cross_validate.  Prophet's
\* cross_validation needs a fitted object whose dates span the initial
\* window and one horizon.
cross_validate(m, initial_days, horizon_days) ==
    IF not_fitted_guard(m) THEN "ValueError:NotFitted"
    ELSE IF ~m.fitted THEN "Exception:ProphetNotFit"
    ELSE IF SetMax(Range(m.history)) - SetMin(Range(m.history)) < initial_days + horizon_days
    THEN "ValueError:LessDataThanHorizon"
    ELSE "none"

\* numpy's round(): to the nearest integer, a tie to the even one.  v is in
\* tenths.                                                    model.py:83-85
round(v) ==
    LET q == v \div 10
        r == v % 10
    IN IF r < 5 THEN q
       ELSE IF r > 5 THEN q + 1
       ELSE IF q % 2 = 0 THEN q ELSE q + 1

\* forecast[forecast['ds'] > max_historical_date], with >= instead.
rows_after_inclusive(rows, historical) ==
    IF historical = <<>> THEN <<>>
    ELSE SelectSeq(rows, LAMBDA r : r.ds >= SetMax(Range(DsOf(historical))))

\* model.py:80-81   the rows dated after the last historical date; the
\* maximum of no dates is NaT, and no date compares greater than NaT.
rows_after(rows, historical) ==
    IF historical = <<>> THEN <<>>
    ELSE SelectSeq(rows, LAMBDA r : r.ds > SetMax(Range(DsOf(historical))))

\* The same without the final column selection.
get_future_predictions_all_columns(fc, historical) ==
    LET future_forecast == rows_after(fc.rows, historical)
    IN [columns |-> fc.columns \cup {"predicted", "lower_bound", "upper_bound"},
        rows |-> [i \in DOMAIN future_forecast |->
                    [ds |-> future_forecast[i].ds,
                     predicted |-> round(future_forecast[i].yhat),
                     lower_bound |-> round(future_forecast[i].yhat_lower),
                     upper_bound |-> round(future_forecast[i].yhat_upper)]]]

\* model.py:68-87   TrafficProphetModel.get_future_predictions
get_future_predictions(fc, historical) ==
    LET future_forecast == rows_after(fc.rows, historical)
    IN [columns |-> {"ds", "predicted", "lower_bound", "upper_bound"},
        rows |-> [i \in DOMAIN future_forecast |->
                    [ds |-> future_forecast[i].ds,
                     predicted |-> round(future_forecast[i].yhat),
                     lower_bound |-> round(future_forecast[i].yhat_lower),
                     upper_bound |-> round(future_forecast[i].yhat_upper)]]]

----------------------------------------------------------------------------
(* Model wrapper actions.                                                   *)

\* model.fit(df_processed)
ModelFit ==
    /\ LET r == fit([model |-> model, validation_metrics |-> validation_metrics,
                     validation_days |-> validation_days], histDf)
       IN /\ model' = r.model
          /\ validation_metrics' = r.validation_metrics
          /\ fitCompleted' = (fitCompleted \/ r.raised = "none")
          /\ modelLast' = [op |-> "fit", raised |-> r.raised, log |-> r.log,
                           fittedBefore |-> fitCompleted]
    /\ UNCHANGED <<validation_days, histDf, forecast, notModelVars>>

\* forecast = model.predict(periods=n)
ModelPredict ==
    \E n \in 0..MaxPeriods, p \in PredictedValues :
        LET r == predict(model, n, p)
        IN /\ forecast' = IF r.raised = "none"
                          THEN [kind |-> "DataFrame", columns |-> r.forecast.columns,
                                rows |-> r.forecast.rows, periods |-> n]
                          ELSE forecast
           /\ modelLast' = [op |-> "predict", raised |-> r.raised, periods |-> n,
                            fittedBefore |-> fitCompleted]
           /\ UNCHANGED <<validation_days, histDf, model, validation_metrics, fitCompleted,
                          notModelVars>>

\* model.cross_validate(initial_days, period_days, horizon_days)
ModelCrossValidate ==
    \E a \in {[initial |-> 1, horizon |-> 1],
              [initial |-> cv_initial_default, horizon |-> cv_horizon_default]} :
        /\ modelLast' = [op |-> "cross_validate",
                         raised |-> cross_validate(model, a.initial, a.horizon),
                         initial |-> a.initial, fittedBefore |-> fitCompleted]
        /\ UNCHANGED <<validation_days, histDf, model, validation_metrics, forecast,
                       fitCompleted, notModelVars>>

\* predictions = model.get_future_predictions(forecast, df_processed)
ModelGetFuture ==
    /\ forecast # NoForecast
    /\ modelLast' = [op |-> "get_future_predictions", raised |-> "none",
                     periods |-> forecast.periods,
                     out |-> get_future_predictions(forecast, histDf)]
    /\ UNCHANGED <<validation_days, histDf, model, validation_metrics, forecast,
                   fitCompleted, notModelVars>>

ModelInitState ==
    /\ validation_days \in ValidationDaysChoices
    /\ histDf \in ModelTables
    /\ model = NoneModel
    /\ validation_metrics = NoMetrics
    /\ forecast = NoForecast
    /\ fitCompleted = FALSE
    /\ modelLast = NoCall

ModelIdle ==
    /\ validation_days = validation_days_default
    /\ histDf = <<>>
    /\ model = NoneModel
    /\ validation_metrics = NoMetrics
    /\ forecast = NoForecast
    /\ fitCompleted = FALSE
    /\ modelLast = NoCall

ModelNext == ModelFit \/ ModelPredict \/ ModelCrossValidate \/ ModelGetFuture

\* model.config.validation_days = vd; model.fit(df): a fit on any table
\* under any of the configured holdout lengths.
ModelRefit ==
    /\ \E df \in ModelTables, vd \in ValidationDaysChoices :
          LET r == fit([model |-> model, validation_metrics |-> validation_metrics,
                        validation_days |-> vd], df)
          IN /\ validation_days' = vd
             /\ histDf' = df
             /\ model' = r.model
             /\ validation_metrics' = r.validation_metrics
             /\ fitCompleted' = (fitCompleted \/ r.raised = "none")
             /\ modelLast' = [op |-> "fit", raised |-> r.raised, log |-> r.log,
                              fittedBefore |-> fitCompleted]
    /\ UNCHANGED <<forecast, notModelVars>>

RefitNext == ModelRefit

\* The split specification: _split_data on tables of 0..MaxSplitRows rows,
\* dated in ascending or in descending order, for validation_days from -1
\* to beyond the table's length and for the configured default.
SplitTables ==
    UNION {{[i \in 1..n |-> ModelRow(i)], [i \in 1..n |-> ModelRow(n + 1 - i)]} :
              n \in 0..MaxSplitRows}
SplitValidationDays == (-1..(MaxSplitRows + 2)) \cup {validation_days_default}

SplitInitState ==
    /\ validation_days \in SplitValidationDays
    /\ histDf \in SplitTables
    /\ model = NoneModel
    /\ validation_metrics = NoMetrics
    /\ forecast = NoForecast
    /\ fitCompleted = FALSE
    /\ modelLast = NoCall

\* train_df, test_df = self._split_data(df)
ModelSplit ==
    /\ LET sp == split_data(histDf, validation_days)
       IN modelLast' = [op |-> "_split_data", raised |-> "none",
                        train |-> sp.train, test |-> sp.test]
    /\ UNCHANGED <<validation_days, histDf, model, validation_metrics, forecast,
                   fitCompleted, notModelVars>>

SplitNext == ModelSplit

----------------------------------------------------------------------------
(* get_future_predictions as a function of any forecast and any history.    *)

ForecastRows ==
    {[ds |-> d, yhat |-> p.yhat, yhat_lower |-> p.yhat_lower, yhat_upper |-> p.yhat_upper] :
        d \in 1..MaxDay, p \in PredictedValues}

FutureInitState ==
    /\ fpForecast \in [columns : {ForecastColumns}, rows : SeqsUpTo(ForecastRows, MaxFcRows)]
    /\ fpHistorical \in {[i \in DOMAIN t |-> ModelRow(t[i])] :
                            t \in SeqsUpTo(1..MaxDay, MaxHistDates)}
    /\ fpOut = NoCall

FutureIdle ==
    /\ fpForecast = [columns |-> ForecastColumns, rows |-> <<>>]
    /\ fpHistorical = <<>>
    /\ fpOut = NoCall

\* predictions = model.get_future_predictions(forecast, historical_df)
FutureExtract ==
    /\ fpOut = NoCall
    /\ LET r == get_future_predictions(fpForecast, fpHistorical)
       IN fpOut' = [op |-> "get_future_predictions", columns |-> r.columns, rows |-> r.rows]
    /\ UNCHANGED <<fpForecast, fpHistorical, notFutureVars>>

FutureNext == FutureExtract

----------------------------------------------------------------------------
(* Dates.  The text of a date is <<y, m, d>>; a timestamp is the number of  *)
(* days since 1970-01-01, and NaT is pandas' missing timestamp.             *)

NaT == -2147483647

IsLeap(y) == (y % 4 = 0 /\ y % 100 # 0) \/ y % 400 = 0

DaysInMonth(y, m) ==
    IF m = 2 THEN (IF IsLeap(y) THEN 29 ELSE 28)
    ELSE IF m \in {4, 6, 9, 11} THEN 30 ELSE 31

IsValidDate(t) ==
    /\ t[2] \in 1..12
    /\ t[3] \in 1..DaysInMonth(t[1], t[2])

\* The day ordinal of the civil date y-m-d (proleptic Gregorian).
DaysFromCivil(y, m, d) ==
    LET yy == IF m <= 2 THEN y - 1 ELSE y
        era == yy \div 400
        yoe == yy - era * 400
        mp == IF m > 2 THEN m - 3 ELSE m + 9
        doy == (153 * mp + 2) \div 5 + d - 1
        doe == yoe * 365 + yoe \div 4 - yoe \div 100 + doy
    IN era * 146097 + doe - 719468

\* The civil date <<y, m, d>> of a day ordinal.
CivilFromDays(z) ==
    LET zz == z + 719468
        era == zz \div 146097
        doe == zz - era * 146097
        yoe == (doe - doe \div 1460 + doe \div 36524 - doe \div 146096) \div 365
        doy == doe - (365 * yoe + yoe \div 4 - yoe \div 100)
        mp == (5 * doy + 2) \div 153
        d == doy - (153 * mp + 2) \div 5 + 1
        m == IF mp < 10 THEN mp + 3 ELSE mp - 9
        y == yoe + era * 400 + (IF m <= 2 THEN 1 ELSE 0)
    IN <<y, m, d>>

\* Series.dt accessors; 1970-01-01 was a Thursday, Monday is 0.
dayofweek(z) == (z + 3) % 7
year_of(z) == CivilFromDays(z)[1]
month_of(z) == CivilFromDays(z)[2]
day_of(z) == CivilFromDays(z)[3]
quarter_of(z) == (month_of(z) - 1) \div 3 + 1
is_month_start(z) == day_of(z) = 1
\* A month end that takes every February to have 28 days.
is_month_end_no_leap(z) ==
    day_of(z) = (IF month_of(z) = 2 THEN 28 ELSE DaysInMonth(year_of(z), month_of(z)))

is_month_end(z) == day_of(z) = DaysInMonth(year_of(z), month_of(z))

\* The number of ISO weeks of year y, and the ISO week of a day.
IsoWeeksInYear(y) ==
    LET P(n) == (n + n \div 4 - n \div 100 + n \div 400) % 7
    IN IF P(y) = 4 \/ P(y - 1) = 3 THEN 53 ELSE 52

isocalendar_week(z) ==
    LET y == year_of(z)
        doy == z - DaysFromCivil(y, 1, 1) + 1
        w == (doy - (dayofweek(z) + 1) + 10) \div 7
    IN IF w < 1 THEN IsoWeeksInYear(y - 1)
       ELSE IF w > IsoWeeksInYear(y) THEN 1
       ELSE w

----------------------------------------------------------------------------
(* The preprocessor: src/src/preprocessor.py                                *)

\* An empty cell of the CSV.
EmptyCell == <<0, 0, 0>>

\* A CTR cell: "5%" is [kind |-> "pct", n |-> 5], "5" is [kind |-> "num", n
\* |-> 5], other text is kind "text", an empty cell kind "nan".
CtrPct(n) == [kind |-> "pct", n |-> n]
CtrNum(n) == [kind |-> "num", n |-> n]
CtrText == [kind |-> "text", n |-> 0]
CtrNaN == [kind |-> "nan", n |-> 0]

\* pd.to_datetime of one Date cell: an empty cell is NaT.  preprocessor.py:23
to_datetime(cell) ==
    IF cell = EmptyCell THEN NaT ELSE DaysFromCivil(cell[1], cell[2], cell[3])

\* Whether pd.to_datetime raises on the column: some cell is not a date.
to_datetime_raises(rows) ==
    \E i \in DOMAIN rows : rows[i].Date # EmptyCell /\ ~IsValidDate(rows[i].Date)

\* read_csv gives a column the dtype object when some cell is not a number,
\* or when the table has no rows; a column of numbers and empty cells is
\* float64, and Series.str then raises AttributeError.      preprocessor.py:27
ctr_is_object(rows) ==
    rows = <<>> \/ \E i \in DOMAIN rows : rows[i].CTR.kind \in {"pct", "text"}

\* pd.to_numeric(cell.rstrip('%'), errors='coerce') / 100    preprocessor.py:26-29
ctr_value(cell) ==
    IF cell.kind \in {"pct", "num"} THEN F(cell.n, 100) ELSE NaN

\* A sort that puts later dates first.
ds_after_or_equal(a, b) == b = NaT \/ (a # NaT /\ a >= b)

\* The key order of sort_values('ds'): ascending, NaT last.
ds_before_or_equal(a, b) == b = NaT \/ (a # NaT /\ a <= b)

IndexPermutations(n) == {f \in [1..n -> 1..n] : \A i, j \in 1..n : f[i] = f[j] => i = j}

\* df.sort_values('ds').reset_index(drop=True): the rows in an order of
\* non-decreasing ds; the default sort is not stable, so rows of equal ds
\* may come in any order.                                     preprocessor.py:32
sort_values_ds(rows) ==
    {[i \in DOMAIN rows |-> rows[f[i]]] : f \in
        {g \in IndexPermutations(Len(rows)) :
            \A i \in 1..(Len(rows) - 1) : ds_before_or_equal(rows[g[i]].ds, rows[g[i + 1]].ds)}}

\* A calendar feature of a timestamp; NaT has none (NaN, False).
Feature(z, v) == IF z = NaT THEN NaN ELSE F(v, 1)
Flag(b) == IF b THEN 1 ELSE 0

\* preprocessor.py:38-61   _add_features, on one row
add_features(r) ==
    [Date |-> r.Date, Clicks |-> r.Clicks, Impressions |-> r.Impressions,
     CTR |-> r.CTR, Position |-> r.Position,
     ds |-> r.ds, y |-> r.y, ctr |-> r.ctr, position |-> r.position,
     day_of_week |-> Feature(r.ds, dayofweek(r.ds)),
     day_of_month |-> Feature(r.ds, day_of(r.ds)),
     week_of_year |-> Feature(r.ds, isocalendar_week(r.ds)),
     month |-> Feature(r.ds, month_of(r.ds)),
     quarter |-> Feature(r.ds, quarter_of(r.ds)),
     year |-> Feature(r.ds, year_of(r.ds)),
     is_weekend |-> Flag(r.ds # NaT /\ dayofweek(r.ds) >= 5),
     is_month_end |-> Flag(r.ds # NaT /\ is_month_end(r.ds)),
     is_month_start |-> Flag(r.ds # NaT /\ is_month_start(r.ds)),
     clicks_per_impression |-> FDivInt(r.y, r.Impressions),
     position_impact |-> FDivInt(1, r.position)]

ProcessedColumns ==
    {"ds", "y", "ctr", "position", "day_of_week", "day_of_month", "week_of_year",
     "month", "quarter", "year", "is_weekend", "is_month_end", "is_month_start",
     "clicks_per_impression", "position_impact"}

\* preprocessor.py:21-30   the columns process adds before sorting
with_canonical_columns(rows) ==
    [i \in DOMAIN rows |->
        [Date |-> rows[i].Date, Clicks |-> rows[i].Clicks,
         Impressions |-> rows[i].Impressions, CTR |-> rows[i].CTR,
         Position |-> rows[i].Position,
         ds |-> to_datetime(rows[i].Date), y |-> rows[i].Clicks,
         ctr |-> ctr_value(rows[i].CTR), position |-> rows[i].Position]]

\* preprocessor.py:11-36   TrafficPreprocessor.process: the outcomes the
\* call may have on df (one per order the sort may give).
process(df) ==
    IF ~(required_columns \subseteq df.columns)
        THEN {[raised |-> "KeyError", columns |-> {}, rows |-> <<>>]}
    ELSE IF to_datetime_raises(df.rows)
        THEN {[raised |-> "ValueError:DateParse", columns |-> {}, rows |-> <<>>]}
    ELSE IF ~ctr_is_object(df.rows)
        THEN {[raised |-> "AttributeError:StrAccessor", columns |-> {}, rows |-> <<>>]}
    ELSE {[raised |-> "none", columns |-> df.columns \cup ProcessedColumns,
           rows |-> [i \in DOMAIN sorted |-> add_features(sorted[i])]] :
             sorted \in sort_values_ds(with_canonical_columns(df.rows))}

\* The raw tables of the preprocessor specification.
PreDates == {<<2023, 12, 31>>, <<2024, 2, 29>>, <<2024, 3, 1>>, <<2023, 2, 29>>, EmptyCell}
PreMetrics == {[Clicks |-> 1, Impressions |-> 50, Position |-> 4],
               [Clicks |-> 2, Impressions |-> 0, Position |-> 0]}
PreCtr == {CtrPct(5), CtrNum(5)}
PreRowSet ==
    {[Date |-> d, Clicks |-> m.Clicks, Impressions |-> m.Impressions,
      CTR |-> c, Position |-> m.Position] : d \in PreDates, m \in PreMetrics, c \in PreCtr}
PreTables == [columns : {required_columns}, rows : SeqsUpTo(PreRowSet, MaxPreRows)]

PreInitState ==
    /\ preIn \in PreTables
    /\ preOut = NoCall

PreIdle ==
    /\ preIn = [columns |-> required_columns, rows |-> <<>>]
    /\ preOut = NoCall

\* df_processed = preprocessor.process(df)
PreProcess ==
    /\ preOut = NoCall
    /\ \E r \in process(preIn) :
          preOut' = [op |-> "process", raised |-> r.raised,
                     columns |-> r.columns, rows |-> r.rows]
    /\ UNCHANGED <<preIn, notPreVars>>

PreNext == PreProcess

\* The tables of the calendar specification: one row, dated any day of
\* 2023, 2024 (a leap year), or of February and March of 2000 and 2100.
CalendarDates ==
    {t \in {<<y, m, d>> : y \in {2023, 2024}, m \in 1..12, d \in 1..31} : IsValidDate(t)}
    \cup {t \in {<<y, m, d>> : y \in {2000, 2100}, m \in 2..3, d \in 1..31} : IsValidDate(t)}
CalendarTables ==
    {[columns |-> required_columns,
      rows |-> <<[Date |-> t, Clicks |-> 1, Impressions |-> 50, CTR |-> CtrPct(5),
                  Position |-> 4]>>] : t \in CalendarDates}

CalendarInitState ==
    /\ preIn \in CalendarTables
    /\ preOut = NoCall

----------------------------------------------------------------------------
(* The analyzer: src/src/analyzer.py                                        *)

\* analyzer.py:49-50 and :65-66
day_order == <<"Monday", "Tuesday", "Wednesday", "Thursday", "Friday", "Saturday", "Sunday">>
month_names == <<"Jan", "Feb", "Mar", "Apr", "May", "Jun",
                 "Jul", "Aug", "Sep", "Oct", "Nov", "Dec">>

\* Series.dt.day_name()                                        analyzer.py:46
day_name(z) == day_order[dayofweek(z) + 1]

YOf(rows) == [i \in DOMAIN rows |-> rows[i].y]

\* df.groupby(key)['y'].mean(): the mean of y over the rows of one group,
\* given as the rows' y values; a key without rows is not in the result.
group_mean(ys) == FDivInt(SumSeq(ys), Len(ys))

\* The divisor of relative_strength taken over all rows instead.
pattern_divisor_all_rows(rows, group_avgs) == FDivInt(SumSeq(YOf(rows)), Len(rows))

\* analyzer.py:56 and :71   weekly_avg.mean(), monthly_avg.mean(): the mean
\* of the groups' averages, groups without rows (NaN, or absent) left out.
pattern_divisor(rows, group_avgs) == FMean(group_avgs)

\* (avg / divisor - 1) * 100                                   analyzer.py:56, :71
relative_strength(avg, divisor) == FMul(FSub(FDiv(avg, divisor), F(1, 1)), F(100, 1))

\* analyzer.py:44-59   _analyze_weekly_pattern: one row per name of
\* day_order; reindex gives NaN to a weekday without rows.
analyze_weekly_pattern(rows) ==
    LET weekly_avg == [w \in 1..7 |->
            LET ys == YOf(SelectSeq(rows, LAMBDA r : day_name(r.ds) = day_order[w]))
            IN IF ys = <<>> THEN NaN ELSE group_mean(ys)]
        divisor == pattern_divisor(rows, weekly_avg)
    IN [columns |-> {"day", "average_clicks", "relative_strength"},
        rows |-> [w \in 1..7 |->
                    [day |-> day_order[w], average_clicks |-> weekly_avg[w],
                     relative_strength |-> relative_strength(weekly_avg[w], divisor)]]]

\* A monthly pattern whose divisor is the mean over all twelve months, a
\* month without rows counting as 0.
analyze_monthly_pattern_all_months(rows) ==
    LET present == {m \in 1..12 : \E i \in DOMAIN rows : rows[i].month = m}
        avg(m) == group_mean(YOf(SelectSeq(rows, LAMBDA r : r.month = m)))
        get(m) == IF m \in present THEN avg(m) ELSE F(0, 1)
        divisor == pattern_divisor(rows, [m \in 1..12 |-> get(m)])
    IN [columns |-> {"month", "average_clicks", "relative_strength"},
        rows |-> [m \in 1..12 |->
                    [month |-> month_names[m], average_clicks |-> get(m),
                     relative_strength |-> relative_strength(get(m), divisor)]]]

\* analyzer.py:61-75   _analyze_monthly_pattern: groups by the month column;
\* monthly_avg.get(i+1, 0) is 0 for a month without rows.
analyze_monthly_pattern(rows) ==
    LET present == {m \in 1..12 : \E i \in DOMAIN rows : rows[i].month = m}
        avg(m) == group_mean(YOf(SelectSeq(rows, LAMBDA r : r.month = m)))
        present_avgs == [k \in 1..Cardinality(present) |-> avg(SortedSeq(present)[k])]
        divisor == pattern_divisor(rows, present_avgs)
        get(m) == IF m \in present THEN avg(m) ELSE F(0, 1)
    IN [columns |-> {"month", "average_clicks", "relative_strength"},
        rows |-> [m \in 1..12 |->
                    [month |-> month_names[m], average_clicks |-> get(m),
                     relative_strength |-> relative_strength(get(m), divisor)]]]

\* scipy.stats.zscore(y): (y - mean) / std with the population standard
\* deviation (ddof = 0).  With n rows of sum S, n*y - S is n (y - mean) and
\* the variance is the sum of the (n*y_j - S)^2 over n^3, so z^2 is
\* n (n*y - S)^2 over that sum.  The model keeps z by its sign and square.
deviation_n(rows, i) == Len(rows) * rows[i].y - SumSeq(YOf(rows))
sum_sq_deviation_n(rows) ==
    SumSeq([j \in DOMAIN rows |-> deviation_n(rows, j) * deviation_n(rows, j)])
zscore(rows, i) ==
    LET q == FDivInt(Len(rows) * deviation_n(rows, i) * deviation_n(rows, i),
                     sum_sq_deviation_n(rows))
    IN [sign |-> Sign(deviation_n(rows, i)), sq |-> q]

\* The mask with the z-score's sign kept: z > threshold.
exceeds_signed(z, threshold) ==
    /\ z.sign > 0
    /\ z.sq.k = "inf" \/ (IsNum(z.sq) /\ z.sq.n > threshold * threshold * z.sq.d)

\* np.abs(z) > z_threshold; a NaN compares False.          analyzer.py:94-95
exceeds(z, threshold) ==
    z.sq.k = "inf" \/ (IsNum(z.sq) /\ z.sq.n > threshold * threshold * z.sq.d)

\* analyzer.py:92   z_threshold: float = 3.0
z_threshold_default == 3

\* analyzer.py:92-105   _detect_anomalies
detect_anomalies(rows, z_threshold) ==
    LET flagged == SelectSeq([i \in DOMAIN rows |-> i],
                             LAMBDA i : exceeds(zscore(rows, i), z_threshold))
    IN [k \in DOMAIN flagged |->
          [date |-> rows[flagged[k]].ds, clicks |-> rows[flagged[k]].y,
           z_score_sq |-> zscore(rows, flagged[k]).sq]]

\* analyzer.py:33-42   _calculate_basic_stats (mean, min, max; the variance
\* stands for std, the sample one, ddof = 1)
calculate_basic_stats(rows) ==
    [mean |-> FDivInt(SumSeq(YOf(rows)), Len(rows)),
     min |-> SetMin(Range(YOf(rows))),
     max |-> SetMax(Range(YOf(rows))),
     var |-> FDivInt(sum_sq_deviation_n(rows), Len(rows) * Len(rows) * (Len(rows) - 1))]

\* analyzer.py:79-80   df.head(30), df.tail(30)
growth_window == 30

\* df.tail(k): the last k rows, or all of them.
tail(rows, k) == SubSeq(rows, Max(1, Len(rows) - k + 1), Len(rows))

\* ds.dt.to_period('M'): the calendar month of a timestamp, year included,
\* as the number of months since year 0.                       analyzer.py:82
to_period_M(z) == 12 * year_of(z) + month_of(z) - 1

\* analyzer.py:82   df.groupby(df['ds'].dt.to_period('M'))['y'].mean(): one
\* entry per calendar month that has rows, in calendar order.
monthly_means(rows) ==
    LET periods == SortedSeq({to_period_M(rows[i].ds) : i \in DOMAIN rows})
    IN [k \in DOMAIN periods |->
          group_mean(YOf(SelectSeq(rows, LAMBDA r : to_period_M(r.ds) = periods[k])))]

\* The change of each entry relative to the first entry.
pct_change_from_first(s) ==
    [k \in DOMAIN s |-> IF k = 1 THEN NaN ELSE FSub(FDiv(s[k], s[1]), F(1, 1))]

\* Series.pct_change(): each entry over the entry before it, minus 1; the
\* first entry has none before it (NaN).                       analyzer.py:83
pct_change(s) ==
    [k \in DOMAIN s |-> IF k = 1 THEN NaN ELSE FSub(FDiv(s[k], s[k - 1]), F(1, 1))]

\* analyzer.py:77-90   _calculate_growth_metrics
calculate_growth_metrics(rows) ==
    LET first_30_days == group_mean(YOf(Head_k(rows, growth_window)))
        last_30_days == group_mean(YOf(tail(rows, growth_window)))
        avg_monthly_growth == FMean(pct_change(monthly_means(rows)))
    IN [total_growth_pct |->
            FMul(FSub(FDiv(last_30_days, first_30_days), F(1, 1)), F(100, 1)),
        avg_monthly_growth_pct |-> FMul(avg_monthly_growth, F(100, 1)),
        first_30_days_avg |-> first_30_days,
        last_30_days_avg |-> last_30_days]

\* analyzer.py:11-31   TrafficAnalyzer.analyze, for a table of at least one
\* row: the result dictionary (seasonality_strength is not modelled), and
\* the table as the call leaves it: the weekly pattern adds the column
\* day_name to the caller's table (:46).
analyze(df) ==
    [results |-> [basic_stats |-> calculate_basic_stats(df.rows),
                  weekly_pattern |-> analyze_weekly_pattern(df.rows),
                  monthly_pattern |-> analyze_monthly_pattern(df.rows),
                  growth_metrics |-> calculate_growth_metrics(df.rows),
                  anomalies |-> detect_anomalies(df.rows, z_threshold_default)],
     df |-> [columns |-> df.columns \cup {"day_name"}, rows |-> df.rows]]

\* The analyzer specification's tables: daily series of 1..MaxSeries days
\* from a start date, each day's clicks one of two values.
AnStartDates == {DaysFromCivil(2024, 2, 25), DaysFromCivil(2023, 12, 30)}
AnClicks == {0, 7}
AnTables ==
    {[columns |-> required_columns \cup ProcessedColumns,
      rows |-> [i \in DOMAIN ys |-> [ds |-> start + i - 1, y |-> ys[i],
                                     month |-> month_of(start + i - 1)]]] :
        start \in AnStartDates, ys \in UNION {[1..n -> AnClicks] : n \in 1..MaxSeries}}

AnalyzerInitState ==
    /\ anDf \in AnTables
    /\ anOut = NoCall

AnalyzerIdle ==
    /\ anDf = [columns |-> required_columns \cup ProcessedColumns, rows |-> <<>>]
    /\ anOut = NoCall

\* analysis_results = analyzer.analyze(df_processed)
AnalyzerAnalyze ==
    /\ anOut = NoCall
    /\ LET r == analyze(anDf)
       IN /\ anOut' = [op |-> "analyze", results |-> r.results]
          /\ anDf' = r.df
    /\ UNCHANGED notAnalyzerVars

AnalyzerNext == AnalyzerAnalyze

\* The tables of the growth specification: one to MaxGrowthRows rows in any
\* order, dated in December 2023, January 2024, February 2024 or December
\* 2024, so that a series may skip a month and may cover the same month of
\* two years.
GrowthDates ==
    {DaysFromCivil(2023, 12, 15), DaysFromCivil(2024, 1, 15), DaysFromCivil(2024, 2, 15),
     DaysFromCivil(2024, 12, 15)}
GrowthClicks == {0, 2, 6}
GrowthTables ==
    {[columns |-> required_columns \cup ProcessedColumns, rows |-> rows] :
        rows \in SeqsUpTo({[ds |-> d, y |-> y, month |-> month_of(d)] :
                              d \in GrowthDates, y \in GrowthClicks}, MaxGrowthRows) \ {<<>>}}

GrowthInitState ==
    /\ anDf \in GrowthTables
    /\ anOut = NoCall

----------------------------------------------------------------------------
(* The visualizer: src/src/visualizer.py.  A figure is modelled by the       *)
(* columns its construction reads and the files its export writes.          *)

\* config.py:34-39   the export options of Config()
default_config ==
    [export_html |-> TRUE, export_png |-> TRUE, export_svg |-> FALSE,
     export_pdf |-> FALSE, create_dashboard |-> TRUE]

\* table[column] for each of the columns read: KeyError when one is absent.
key_error(columns, read) == ~(read \subseteq columns)

\* An export whose static formats are written only along with the HTML.
export_figure_html_first(config, filename) ==
    {<<filename, fmt>> : fmt \in
        {x \in {"html", "png", "svg", "pdf"} :
            /\ config.export_html
            /\ \/ x = "html"
               \/ x = "png" /\ config.export_png
               \/ x = "svg" /\ config.export_svg
               \/ x = "pdf" /\ config.export_pdf}}

\* visualizer.py:34-82   _export_figure: one file per enabled format
export_figure(config, filename) ==
    {<<filename, fmt>> : fmt \in
        {x \in {"html", "png", "svg", "pdf"} :
            \/ x = "html" /\ config.export_html
            \/ x = "png" /\ config.export_png
            \/ x = "svg" /\ config.export_svg
            \/ x = "pdf" /\ config.export_pdf}}

\* visualizer.py:84-202   plot_forecast
plot_forecast(config, df, fc) ==
    IF key_error(df.columns, {"ds", "y"})
       \/ key_error(fc.columns, {"ds", "yhat", "yhat_upper", "yhat_lower"})
    THEN [raised |-> "KeyError", files |-> {}]
    ELSE [raised |-> "none", files |-> export_figure(config, "forecast")]

\* visualizer.py:324-403   plot_components
plot_components(config, fc) ==
    IF key_error(fc.columns, {"ds", "trend"})
    THEN [raised |-> "KeyError", files |-> {}]
    ELSE [raised |-> "none", files |-> export_figure(config, "components")]

\* visualizer.py:454-474   _plot_weekly_pattern_plotly
plot_weekly_pattern(weekly_data) ==
    key_error(weekly_data.columns, {"relative_strength", "day", "average_clicks"})

\* visualizer.py:476-506   _plot_monthly_pattern_plotly: reads the columns
\* average_clicks (:478), year_month (:481, :497) and relative_strength
plot_monthly_pattern(monthly_data) ==
    key_error(monthly_data.columns, {"average_clicks", "year_month", "relative_strength"})

\* visualizer.py:405-452   plot_analysis
plot_analysis(config, df, analysis) ==
    IF plot_weekly_pattern(analysis.weekly_pattern)
       \/ plot_monthly_pattern(analysis.monthly_pattern)
       \/ key_error(df.columns, {"ds", "y"})
    THEN [raised |-> "KeyError", files |-> {}]
    ELSE [raised |-> "none", files |-> export_figure(config, "analysis")]

\* visualizer.py:204-322   create_interactive_dashboard
create_interactive_dashboard(config, df, fc) ==
    IF key_error(df.columns, {"ds", "y"})
       \/ key_error(fc.columns, {"ds", "yhat", "yhat_upper", "yhat_lower"})
    THEN [raised |-> "KeyError", files |-> {}]
    ELSE [raised |-> "none",
          files |-> IF config.create_dashboard THEN {<<"dashboard", "html">>} ELSE {}]

----------------------------------------------------------------------------
(* Visualizer actions: a TrafficVisualizer with some configuration, called  *)
(* on a preprocessed table, its analysis and a forecast.                    *)

\* The preprocessed tables of the visualizer specification: one day of data.
VizTables ==
    {[columns |-> required_columns \cup ProcessedColumns,
      rows |-> <<[ds |-> start, y |-> y, month |-> month_of(start)]>>] :
        start \in AnStartDates, y \in AnClicks}

\* The forecast handed to the visualizer: Prophet's columns.
VizForecast == [columns |-> ForecastColumns, rows |-> <<>>]

ChartNames == {"forecast", "components", "analysis"}

\* What a visualizer call reports: its outcome and the files it wrote.
Called(op, name, r) == [op |-> op, name |-> name, raised |-> r.raised, written |-> r.files]

\* visualizer._export_figure(fig, name)
VizExportFigure ==
    /\ vizCalls < MaxVizCalls
    /\ \E name \in ChartNames :
          LET r == [raised |-> "none", files |-> export_figure(vizConfig, name)]
          IN /\ vizFiles' = vizFiles \cup r.files
             /\ vizLast' = Called("_export_figure", name, r)
    /\ vizCalls' = vizCalls + 1
    /\ UNCHANGED <<vizConfig, vizDf, vizAnalysis, notVizVars>>

\* visualizer.plot_forecast(df_processed, forecast, model.model)
VizPlotForecast ==
    /\ vizCalls < MaxVizCalls
    /\ LET r == plot_forecast(vizConfig, vizDf, VizForecast)
       IN /\ vizFiles' = vizFiles \cup r.files
          /\ vizLast' = Called("plot_forecast", "forecast", r)
    /\ vizCalls' = vizCalls + 1
    /\ UNCHANGED <<vizConfig, vizDf, vizAnalysis, notVizVars>>

\* visualizer.plot_components(model.model, forecast)
VizPlotComponents ==
    /\ vizCalls < MaxVizCalls
    /\ LET r == plot_components(vizConfig, VizForecast)
       IN /\ vizFiles' = vizFiles \cup r.files
          /\ vizLast' = Called("plot_components", "components", r)
    /\ vizCalls' = vizCalls + 1
    /\ UNCHANGED <<vizConfig, vizDf, vizAnalysis, notVizVars>>

\* visualizer.plot_analysis(df_processed, analysis_results)
VizPlotAnalysis ==
    /\ vizCalls < MaxVizCalls
    /\ LET r == plot_analysis(vizConfig, vizDf, vizAnalysis)
       IN /\ vizFiles' = vizFiles \cup r.files
          /\ vizLast' = Called("plot_analysis", "analysis", r)
    /\ vizCalls' = vizCalls + 1
    /\ UNCHANGED <<vizConfig, vizDf, vizAnalysis, notVizVars>>

\* visualizer.create_interactive_dashboard(df_processed, forecast, analysis_results)
VizDashboard ==
    /\ vizCalls < MaxVizCalls
    /\ LET r == create_interactive_dashboard(vizConfig, vizDf, VizForecast)
       IN /\ vizFiles' = vizFiles \cup r.files
          /\ vizLast' = Called("create_interactive_dashboard", "dashboard", r)
    /\ vizCalls' = vizCalls + 1
    /\ UNCHANGED <<vizConfig, vizDf, vizAnalysis, notVizVars>>

\* The visualizer is constructed with any export options; the table has
\* been analyzed by TrafficAnalyzer.analyze (main.py:43).
VizInitState ==
    /\ vizConfig \in [export_html : BOOLEAN, export_png : BOOLEAN, export_svg : BOOLEAN,
                      export_pdf : BOOLEAN, create_dashboard : BOOLEAN]
    /\ \E t \in VizTables :
          /\ vizDf = analyze(t).df
          /\ vizAnalysis = analyze(t).results
    /\ vizFiles = {}
    /\ vizCalls = 0
    /\ vizLast = NoCall

VizIdle ==
    /\ vizConfig = default_config
    /\ vizDf = [columns |-> {}, rows |-> <<>>]
    /\ vizAnalysis = NoCall
    /\ vizFiles = {}
    /\ vizCalls = 0
    /\ vizLast = NoCall

VizNext ==
    \/ VizExportFigure
    \/ VizPlotForecast
    \/ VizPlotComponents
    \/ VizPlotAnalysis
    \/ VizDashboard

----------------------------------------------------------------------------
(* The pipeline: src/main.py                                                *)

\* How a run of main ends: the stage it reached, what that stage raised,
\* the files written so far, and the rows of predictions.csv.
Ended(stage, raised, files, predictions) ==
    [op |-> "main", stage |-> stage, raised |-> raised, files |-> files,
     predictions |-> predictions]

\* The rows of df_processed as the analyzer reads them: ds, y and the
\* month column's number.
analyzer_rows(rows) ==
    [i \in DOMAIN rows |-> [ds |-> rows[i].ds, y |-> rows[i].y, month |-> rows[i].month.n]]

\* A pipeline in which a chart that fails is skipped and the run goes on to
\* write the predictions.
main_after_process_keep_going(pr, forecast_days, p) ==
    LET config == default_config
        an == analyze([columns |-> pr.columns, rows |-> analyzer_rows(pr.rows)])
        df_processed == [columns |-> an.df.columns, rows |-> pr.rows]
        f == fit([model |-> NoneModel, validation_metrics |-> NoMetrics,
                  validation_days |-> validation_days_default], pr.rows)
        fc == predict(f.model, forecast_days, p)
        v1 == plot_forecast(config, df_processed, fc.forecast)
        v2 == plot_components(config, fc.forecast)
        v3 == plot_analysis(config, df_processed, an.results)
        v4 == create_interactive_dashboard(config, df_processed, fc.forecast)
    IN IF f.raised # "none" THEN Ended("fit", f.raised, {}, <<>>)
       ELSE IF fc.raised # "none" THEN Ended("predict", fc.raised, {}, <<>>)
       ELSE Ended("done", "none",
                  v1.files \cup v2.files \cup v3.files \cup v4.files
                     \cup {<<"predictions", "csv">>},
                  get_future_predictions(fc.forecast, pr.rows).rows)

\* main.py:41-72   main from the analysis on, given df_processed
main_after_process(pr, forecast_days, p) ==
    LET config == default_config
        \* :43
        an == analyze([columns |-> pr.columns, rows |-> analyzer_rows(pr.rows)])
        df_processed == [columns |-> an.df.columns, rows |-> pr.rows]
        \* :46-47
        f == fit([model |-> NoneModel, validation_metrics |-> NoMetrics,
                  validation_days |-> validation_days_default], pr.rows)
        \* :50
        fc == predict(f.model, forecast_days, p)
        \* :54-56
        v1 == plot_forecast(config, df_processed, fc.forecast)
        v2 == plot_components(config, fc.forecast)
        v3 == plot_analysis(config, df_processed, an.results)
        \* :58-60
        v4 == IF config.create_dashboard
              THEN create_interactive_dashboard(config, df_processed, fc.forecast)
              ELSE [raised |-> "none", files |-> {}]
        \* :63-64
        predictions_df == get_future_predictions(fc.forecast, pr.rows)
    IN IF f.raised # "none" THEN Ended("fit", f.raised, {}, <<>>)
       ELSE IF fc.raised # "none" THEN Ended("predict", fc.raised, {}, <<>>)
       ELSE IF v1.raised # "none" THEN Ended("plot_forecast", v1.raised, {}, <<>>)
       ELSE IF v2.raised # "none"
       THEN Ended("plot_components", v2.raised, v1.files, <<>>)
       ELSE IF v3.raised # "none"
       THEN Ended("plot_analysis", v3.raised, v1.files \cup v2.files, <<>>)
       ELSE IF v4.raised # "none"
       THEN Ended("create_interactive_dashboard", v4.raised,
                  v1.files \cup v2.files \cup v3.files, <<>>)
       ELSE Ended("done", "none",
                  v1.files \cup v2.files \cup v3.files \cup v4.files
                     \cup {<<"predictions", "csv">>},
                  predictions_df.rows)

\* main.py:21-72   main(data_path, output_dir, forecast_days): the ways the
\* run may end (one per order the preprocessor's sort may give).
main(exists, file, forecast_days, p) ==
    IF init_raises(exists)
    THEN {Ended("TrafficDataLoader", "FileNotFoundError", {}, <<>>)}
    ELSE LET l == load(exists, file)
         IN IF l.raised # "none" THEN {Ended("load", l.raised, {}, <<>>)}
            ELSE {IF pr.raised # "none" THEN Ended("process", pr.raised, {}, <<>>)
                  ELSE main_after_process(pr, forecast_days, p) : pr \in process(l.df)}

\* The data files of the pipeline specification: a header with or without
\* the CTR column, and one to MaxMainRows rows; a Date cell is a date or
\* the text 2023-02-29, a CTR cell is "5%" or the number 5.
MainDates == {<<2024, 2, 28>>, <<2024, 2, 29>>, <<2024, 3, 1>>, <<2023, 2, 29>>}
MainRowSet ==
    {[Date |-> d, Clicks |-> 2, Impressions |-> 50, CTR |-> c, Position |-> 4] :
        d \in MainDates, c \in {CtrPct(5), CtrNum(5)}}
MainFiles ==
    [columns : {required_columns, required_columns \ {"CTR"}, required_columns \cup {"Extra"}},
     rows : SeqsUpTo(MainRowSet, MaxMainRows) \ {<<>>}]
MainForecastDays == {0, 1}

MainInitState ==
    /\ mainIn \in [exists : BOOLEAN, file : MainFiles, forecast_days : MainForecastDays]
    /\ mainOut = NoCall

MainIdle ==
    /\ mainIn = [exists |-> FALSE, file |-> [columns |-> {}, rows |-> <<>>],
                 forecast_days |-> 0]
    /\ mainOut = NoCall

\* python main.py data_path --days forecast_days
MainRun ==
    /\ mainOut = NoCall
    /\ \E p \in PredictedValues :
          \E r \in main(mainIn.exists, mainIn.file, mainIn.forecast_days, p) :
              mainOut' = r
    /\ UNCHANGED <<mainIn, notMainVars>>

MainNext == MainRun

----------------------------------------------------------------------------
(* A caller that keeps the tables in its own hands: the raw table, and the  *)
(* table process returned, which it passes to handle_outliers, to the       *)
(* analyzer and to fit (src/main.py:39-47, src/example.py).                 *)

\* The table as handle_outliers and the z-score of scipy read its y: a
\* float64 column, where a missing Clicks cell is NaN.
with_float_y(rows) ==
    [i \in DOMAIN rows |->
        [f \in DOMAIN rows[i] |-> IF f = "y" THEN F(rows[i].y, 1) ELSE rows[i][f]]]

\* The values of y that are not NaN, as Series.mean() and Series.std() take
\* them (skipna = True).
notna_y(rows) ==
    LET present == SelectSeq(rows, LAMBDA r : IsNum(r.y))
    IN [k \in DOMAIN present |-> [y |-> present[k].y.n]]

\* preprocessor.py:75   (df['y'] - df['y'].mean()) / df['y'].std() for row
\* i: pandas divides by the sample standard deviation (ddof = 1) of the
\* values that are not NaN.  With n such values of sum S, z^2 is
\* (n - 1) (n*y - S)^2 over the sum of the (n*y_j - S)^2; a row whose y is
\* NaN has z = NaN, and so has every row when fewer than two values are
\* there or all of them are equal (0/0).
sample_zscore(rows, i) ==
    LET present == notna_y(rows)
        n == Len(present)
    IN IF ~IsNum(rows[i].y) THEN [sign |-> 0, sq |-> NaN]
       ELSE LET dev == n * rows[i].y.n - SumSeq(YOf(present))
            IN [sign |-> Sign(dev),
                sq |-> FDivInt((n - 1) * dev * dev, sum_sq_deviation_n(present))]

\* The table with the column is_outlier, as handle_outliers computes it.
with_is_outlier(df, z_threshold) ==
    [columns |-> df.columns \cup {"is_outlier"},
     rows |-> [i \in DOMAIN df.rows |->
                [f \in DOMAIN df.rows[i] \cup {"is_outlier"} |->
                    IF f = "is_outlier"
                    THEN exceeds(sample_zscore(df.rows, i), z_threshold)
                    ELSE df.rows[i][f]]]]

\* A handle_outliers that marks the rows in the caller's table.
handle_outliers_in_place(df, z_threshold) ==
    [returned |-> with_is_outlier(df, z_threshold),
     df |-> with_is_outlier(df, z_threshold)]

\* preprocessor.py:63-79   handle_outliers: what it returns, and the
\* caller's table as the call leaves it (the column is added to a copy, :74).
handle_outliers(df, z_threshold) ==
    [returned |-> with_is_outlier(df, z_threshold), df |-> df]

\* analyzer.py:92-105   _detect_anomalies on a float64 series:
\* scipy.stats.zscore propagates NaN (nan_policy = 'propagate'), so one
\* missing value makes every z-score NaN and the mask all False.
detect_anomalies_series(rows, z_threshold) ==
    IF \E j \in DOMAIN rows : ~IsNum(rows[j].y) THEN <<>>
    ELSE detect_anomalies([i \in DOMAIN rows |-> [ds |-> rows[i].ds, y |-> rows[i].y.n]],
                          z_threshold)

\* The rows of the caller's table as the analyzer reads them.
analyzer_view(rows) ==
    [i \in DOMAIN rows |-> [ds |-> rows[i].ds, y |-> rows[i].y.n, month |-> rows[i].month.n]]

\* The caller's table after analyze(df): its columns, and ds and y of its
\* rows, are what the call left in the table it was given.
after_analyze(df, left) ==
    [columns |-> left.columns,
     rows |-> [i \in DOMAIN df.rows |->
                [f \in DOMAIN df.rows[i] |->
                    IF f = "ds" THEN left.rows[i].ds
                    ELSE IF f = "y" THEN F(left.rows[i].y, 1)
                    ELSE df.rows[i][f]]]]

\* df[['ds', 'y']]                                           model.py:40, :46
ds_y(rows) == [i \in DOMAIN rows |-> [ds |-> rows[i].ds, y |-> rows[i].y]]

NoTable == [columns |-> {}, rows |-> <<>>]

CallerIdle ==
    /\ rawDf = NoTable
    /\ procDf = NoTable
    /\ produced = NoCall
    /\ outliersOut = NoCall
    /\ analysisOut = NoCall
    /\ fittedOn = NoCall

\* The raw tables of the caller specification: one to MaxPreRows rows in
\* any order, each dated one of three days.
CallerDates == {<<2023, 12, 31>>, <<2024, 2, 29>>, <<2024, 3, 1>>}
CallerRowSet ==
    {[Date |-> d, Clicks |-> m.Clicks, Impressions |-> m.Impressions,
      CTR |-> CtrPct(5), Position |-> m.Position] : d \in CallerDates, m \in PreMetrics}
CallerTables == [columns : {required_columns}, rows : SeqsUpTo(CallerRowSet, MaxPreRows) \ {<<>>}]

CallerInitState ==
    /\ rawDf \in CallerTables
    /\ procDf = NoTable
    /\ produced = NoCall
    /\ outliersOut = NoCall
    /\ analysisOut = NoCall
    /\ fittedOn = NoCall

\* df_processed = preprocessor.process(df)                        main.py:39
CallerProcess ==
    /\ produced = NoCall
    /\ \E r \in process(rawDf) :
          /\ produced' = [op |-> "process", raised |-> r.raised, columns |-> r.columns,
                          rows |-> with_float_y(r.rows)]
          /\ procDf' = IF r.raised = "none"
                       THEN [columns |-> r.columns, rows |-> with_float_y(r.rows)]
                       ELSE NoTable
    /\ UNCHANGED <<rawDf, outliersOut, analysisOut, fittedOn, notCallerVars>>

\* preprocessor.handle_outliers(df_processed)
CallerHandleOutliers ==
    /\ procDf # NoTable
    /\ outliersOut = NoCall
    /\ LET r == handle_outliers(procDf, z_threshold_default)
       IN /\ outliersOut' = [op |-> "handle_outliers", columns |-> r.returned.columns,
                             rows |-> r.returned.rows]
          /\ procDf' = r.df
    /\ UNCHANGED <<rawDf, produced, analysisOut, fittedOn, notCallerVars>>

\* analysis_results = analyzer.analyze(df_processed)              main.py:43
CallerAnalyze ==
    /\ procDf # NoTable
    /\ produced # NoCall
    /\ analysisOut = NoCall
    /\ LET r == analyze([columns |-> procDf.columns, rows |-> analyzer_view(procDf.rows)])
       IN /\ analysisOut' = [op |-> "analyze", results |-> r.results]
          /\ procDf' = after_analyze(procDf, r.df)
    /\ UNCHANGED <<rawDf, produced, outliersOut, fittedOn, notCallerVars>>

\* model = TrafficProphetModel(config=Config()); model.fit(df_processed)
\*                                                            main.py:46-47
CallerFit ==
    /\ procDf # NoTable
    /\ produced # NoCall
    /\ fittedOn = NoCall
    /\ LET r == fit([model |-> NoneModel, validation_metrics |-> NoMetrics,
                     validation_days |-> validation_days_default], procDf.rows)
       IN fittedOn' = [op |-> "fit", raised |-> r.raised, log |-> r.log,
                       rows |-> ds_y(procDf.rows)]
    /\ UNCHANGED <<rawDf, procDf, produced, outliersOut, analysisOut, notCallerVars>>

CallerNext == CallerProcess \/ CallerHandleOutliers \/ CallerAnalyze \/ CallerFit

\* The series of the outlier specification: 1..MaxOutlierRows daily rows
\* of no clicks, of which up to two hold another value or none.
OutlierClicks == {F(0, 1), F(1, 1), F(7, 1), NaN}
OutlierSeries ==
    {[k \in 1..n |-> IF k = i THEN a ELSE IF k = j THEN b ELSE F(0, 1)] :
        n \in 1..MaxOutlierRows, i \in 1..MaxOutlierRows, j \in 1..MaxOutlierRows,
        a \in OutlierClicks, b \in OutlierClicks}
OutlierTables ==
    {[columns |-> required_columns \cup ProcessedColumns,
      rows |-> [i \in DOMAIN ys |-> [ds |-> DaysFromCivil(2024, 2, 25) + i - 1, y |-> ys[i]]]] :
        ys \in OutlierSeries}

OutlierInitState ==
    /\ rawDf = NoTable
    /\ procDf \in OutlierTables
    /\ produced = NoCall
    /\ outliersOut = NoCall
    /\ analysisOut = NoCall
    /\ fittedOn = NoCall

\* analyzer._detect_anomalies(df_processed)
CallerDetectAnomalies ==
    /\ procDf # NoTable
    /\ analysisOut = NoCall
    /\ analysisOut' = [op |-> "_detect_anomalies",
                       anomalies |-> detect_anomalies_series(procDf.rows, z_threshold_default)]
    /\ UNCHANGED <<rawDf, procDf, produced, outliersOut, fittedOn, notCallerVars>>

OutlierNext == CallerHandleOutliers \/ CallerDetectAnomalies

----------------------------------------------------------------------------
(* Specifications: one per component; the variables of the other components *)
(* stay as they are initially.                                              *)

LoaderIdle ==
    /\ fileExists = FALSE
    /\ fileData = [columns |-> {}, rows |-> <<>>]
    /\ loader = NoLoader
    /\ readCount = 0
    /\ loaderLast = NoCall

InitLoader ==
    /\ LoaderInitState /\ ModelIdle /\ FutureIdle /\ PreIdle /\ AnalyzerIdle /\ MainIdle /\ VizIdle
    /\ CallerIdle

SpecLoader == InitLoader /\ [][LoaderNext]_vars

InitModel ==
    /\ ModelInitState /\ LoaderIdle /\ FutureIdle /\ PreIdle /\ AnalyzerIdle /\ MainIdle /\ VizIdle
    /\ CallerIdle

SpecModel == InitModel /\ [][ModelNext]_vars

InitFuture ==
    /\ FutureInitState /\ LoaderIdle /\ ModelIdle /\ PreIdle /\ AnalyzerIdle /\ MainIdle /\ VizIdle
    /\ CallerIdle

SpecFuture == InitFuture /\ [][FutureNext]_vars

InitPre ==
    /\ PreInitState /\ LoaderIdle /\ ModelIdle /\ FutureIdle /\ AnalyzerIdle /\ MainIdle /\ VizIdle
    /\ CallerIdle

SpecPre == InitPre /\ [][PreNext]_vars

InitAnalyzer ==
    /\ AnalyzerInitState /\ LoaderIdle /\ ModelIdle /\ FutureIdle /\ PreIdle /\ MainIdle /\ VizIdle
    /\ CallerIdle

SpecAnalyzer == InitAnalyzer /\ [][AnalyzerNext]_vars

InitMain ==
    /\ MainInitState /\ LoaderIdle /\ ModelIdle /\ FutureIdle /\ PreIdle /\ AnalyzerIdle
    /\ VizIdle /\ CallerIdle

SpecMain == InitMain /\ [][MainNext]_vars

InitCalendar ==
    /\ CalendarInitState /\ LoaderIdle /\ ModelIdle /\ FutureIdle /\ AnalyzerIdle /\ MainIdle
    /\ VizIdle /\ CallerIdle

SpecCalendar == InitCalendar /\ [][PreNext]_vars

InitGrowth ==
    /\ GrowthInitState /\ LoaderIdle /\ ModelIdle /\ FutureIdle /\ PreIdle /\ MainIdle
    /\ VizIdle /\ CallerIdle

SpecGrowth == InitGrowth /\ [][AnalyzerNext]_vars

InitSplit ==
    /\ SplitInitState /\ LoaderIdle /\ FutureIdle /\ PreIdle /\ AnalyzerIdle /\ MainIdle
    /\ VizIdle /\ CallerIdle

SpecSplit == InitSplit /\ [][SplitNext]_vars

SpecRefit == InitModel /\ [][RefitNext]_vars

InitViz ==
    /\ VizInitState /\ LoaderIdle /\ ModelIdle /\ FutureIdle /\ PreIdle /\ AnalyzerIdle
    /\ MainIdle /\ CallerIdle

SpecViz == InitViz /\ [][VizNext]_vars

InitCaller ==
    /\ CallerInitState /\ LoaderIdle /\ ModelIdle /\ FutureIdle /\ PreIdle /\ AnalyzerIdle
    /\ MainIdle /\ VizIdle

SpecCaller == InitCaller /\ [][CallerNext]_vars

InitOutliers ==
    /\ OutlierInitState /\ LoaderIdle /\ ModelIdle /\ FutureIdle /\ PreIdle /\ AnalyzerIdle
    /\ MainIdle /\ VizIdle

SpecOutliers == InitOutliers /\ [][OutlierNext]_vars

----------------------------------------------------------------------------
(* Claims about the loader, checked under SpecLoader.                       *)

\* C1: a load that reads the file raises the missing-column ValueError
\* exactly when one of the five required columns is absent from the header;
\* when all five are there, extra columns or not, it raises nothing and
\* returns the file's columns and every row of the file, in order.
C1_LoadRaisesIffColumnMissing ==
    (loaderLast.op = "load" /\ loaderLast.existed) =>
        /\ loaderLast.raised \in {"none", "ValueError:MissingColumns"}
        /\ (loaderLast.raised = "ValueError:MissingColumns")
              <=> (\E c \in required_columns : c \notin fileData.columns)
        /\ loaderLast.raised = "ValueError:MissingColumns"
              => loaderLast.missing = {c \in required_columns : c \notin fileData.columns}
        /\ (required_columns \subseteq fileData.columns)
              => /\ loaderLast.raised = "none"
                 /\ loaderLast.df.rows = fileData.rows
                 /\ loaderLast.df.columns = fileData.columns

\* A load of a file with the five columns and an extra one, MaxRows rows,
\* has returned.
C1_Witness ==
    /\ loaderLast.op = "load" /\ loaderLast.existed
    /\ fileData.columns = required_columns \cup {"Extra"}
    /\ Len(fileData.rows) = MaxRows
    /\ loaderLast.raised = "none"
    /\ Len(loaderLast.df.rows) = MaxRows

C2_State ==
    /\ loader.state = "constructed" => loader.existedAtInit
    /\ (loaderLast.op = "init" /\ ~loaderLast.existed)
          => loaderLast.raised = "FileNotFoundError"
    /\ (loaderLast.op = "load" \/ readCount > 0)
          => (loader.state = "constructed" /\ loader.existedAtInit)

C2_Step ==
    (loaderLast'.op = "init" /\ loaderLast' # loaderLast /\ ~fileExists)
        => /\ loaderLast'.raised = "FileNotFoundError"
           /\ readCount' = readCount
           /\ loader' = loader

\* C2: constructing the loader on a path that does not exist raises
\* FileNotFoundError in the constructor, attempts no read and yields no
\* loader object; every loader that exists, and so every loader load is
\* called on, was constructed while its path existed.
C2_InitRaisesWhenPathMissing == []C2_State /\ [][C2_Step]_vars

\* A construction on a missing path has just failed and no loader exists.
C2_Witness ==
    /\ loaderLast.op = "init" /\ ~loaderLast.existed
    /\ loaderLast.raised = "FileNotFoundError"
    /\ loader = NoLoader /\ readCount = 0

----------------------------------------------------------------------------
(* Claims about the model wrapper, checked under SpecModel.                 *)

\* C3: predict and cross_validate raise the wrapper's ValueError ("Model
\* must be fitted before ...") whenever no fit call has returned normally
\* before them, also when an earlier fit call raised part-way through.
C3_UnfittedCallsRaiseNotFitted ==
    (modelLast.op \in {"predict", "cross_validate"} /\ ~modelLast.fittedBefore)
        => modelLast.raised = "ValueError:NotFitted"

\* The last historical date and the first k rows of the table.
LastHistorical == SetMax(Range(DsOf(histDf)))
Holdout == split_data(histDf, validation_days).test
TrainPart == split_data(histDf, validation_days).train

\* C4: a fit that returns has split the table, fitted a model on the train
\* part only, validated on the holdout exactly when the holdout is not
\* empty, then created a fresh model and fitted it on every row; self.model
\* is that last model, and a later predict covers every historical date.
C4_FitRefitsOnFullHistory ==
    /\ (modelLast.op = "fit" /\ modelLast.raised = "none") =>
          /\ modelLast.log =
                <<StepSplit, StepCreate, StepFit(TrainPart)>>
                \o (IF Holdout # <<>> THEN <<StepValidate(Holdout)>> ELSE <<>>)
                \o <<StepCreate, StepFit(histDf)>>
          /\ model.kind = "Prophet" /\ model.fitted
          /\ model.history = DsOf(histDf)
          /\ Len(model.history) = Len(histDf)
    /\ (modelLast.op = "predict" /\ modelLast.raised = "none") =>
          /\ model.history = DsOf(histDf)
          /\ Range(DsOf(histDf)) \subseteq Range(DsOf(forecast.rows))

\* A fit with a non-empty holdout has returned: the train part is shorter
\* than the table and the model holds the whole table.
C4_Witness ==
    /\ modelLast.op = "fit" /\ modelLast.raised = "none"
    /\ Holdout # <<>> /\ Len(TrainPart) < Len(histDf)
    /\ Range(DsOf(Holdout)) \cap Range(DsOf(TrainPart)) = {}
    /\ model.history = DsOf(histDf)

\* C6: for a fitted model and a horizon n >= 0, the future predictions of
\* predict(n) are exactly n rows, dated the n consecutive days after the
\* last historical date, in order.
C6_FuturePredictionsCoverHorizon ==
    modelLast.op = "get_future_predictions" =>
        DsOf(modelLast.out.rows) = [i \in 1..modelLast.periods |-> LastHistorical + i]

IsDaily(rows) == \A i \in 1..(Len(rows) - 1) : rows[i + 1].ds = rows[i].ds + 1

\* The future predictions of predict(MaxPeriods) on a daily history with a
\* non-empty holdout have been extracted.
C6_Witness ==
    /\ modelLast.op = "get_future_predictions"
    /\ modelLast.periods = MaxPeriods
    /\ Len(histDf) = MaxHist /\ IsDaily(histDf) /\ Holdout # <<>>
    /\ Len(modelLast.out.rows) = MaxPeriods

----------------------------------------------------------------------------
(* Claims about get_future_predictions, checked under SpecFuture.           *)

\* The positions of the forecast's rows dated after every historical date.
LaterRows ==
    {i \in DOMAIN fpForecast.rows :
        /\ fpHistorical # <<>>
        /\ \A j \in DOMAIN fpHistorical : fpForecast.rows[i].ds > fpHistorical[j].ds}

\* C5: get_future_predictions returns exactly the forecast's rows dated
\* strictly after the latest historical date, in the forecast's order, none
\* of them omitted and no other row returned, under exactly the columns ds,
\* predicted, lower_bound, upper_bound (the three values being the
\* forecast's, to the nearest integer).
C5_FutureRowsAreThoseAfterHistory ==
    fpOut # NoCall =>
        /\ fpOut.columns = {"ds", "predicted", "lower_bound", "upper_bound"}
        /\ Len(fpOut.rows) = Cardinality(LaterRows)
        /\ \A k \in DOMAIN fpOut.rows :
              LET i == SortedSeq(LaterRows)[k]
              IN /\ DOMAIN fpOut.rows[k] = fpOut.columns
                 /\ fpOut.rows[k].ds = fpForecast.rows[i].ds
                 /\ Abs(10 * fpOut.rows[k].predicted - fpForecast.rows[i].yhat) <= 5
                 /\ Abs(10 * fpOut.rows[k].lower_bound - fpForecast.rows[i].yhat_lower) <= 5
                 /\ Abs(10 * fpOut.rows[k].upper_bound - fpForecast.rows[i].yhat_upper) <= 5

\* An unordered forecast with a row on the last historical date, which is
\* left out, and two later rows, which are returned in the forecast's order.
C5_Witness ==
    /\ fpOut # NoCall
    /\ Len(fpHistorical) = MaxHistDates
    /\ Len(fpForecast.rows) = 3
    /\ fpForecast.rows[2].ds = fpHistorical[1].ds
    /\ fpForecast.rows[1].ds > fpForecast.rows[3].ds
    /\ fpForecast.rows[3].ds > fpHistorical[1].ds
    /\ fpForecast.rows[1].yhat # fpForecast.rows[3].yhat
    /\ DsOf(fpOut.rows) = <<fpForecast.rows[1].ds, fpForecast.rows[3].ds>>

----------------------------------------------------------------------------
(* Claims about the preprocessor, checked under SpecPre.                    *)

RawCells(r) ==
    [Date |-> r.Date, Clicks |-> r.Clicks, Impressions |-> r.Impressions,
     CTR |-> r.CTR, Position |-> r.Position]

\* C7: when process returns, its table has as many rows as the input, each
\* input row appearing exactly once (none dropped, merged or de-duplicated);
\* in each row ds is the timestamp of that row's Date (missing for an empty
\* Date) and y is that row's Clicks; and the rows are in non-decreasing
\* order of ds, rows without a date last, whatever the input order.
C7_ProcessKeepsRowsSortedByDs ==
    (preOut # NoCall /\ preOut.raised = "none") =>
        /\ Len(preOut.rows) = Len(preIn.rows)
        /\ \E f \in IndexPermutations(Len(preIn.rows)) :
              \A i \in DOMAIN preOut.rows : RawCells(preOut.rows[i]) = preIn.rows[f[i]]
        /\ \A i \in DOMAIN preOut.rows :
              LET r == preOut.rows[i]
              IN /\ r.y = r.Clicks
                 /\ (r.Date = EmptyCell) <=> (r.ds = NaT)
                 /\ r.Date # EmptyCell => CivilFromDays(r.ds) = r.Date
        /\ \A i, j \in DOMAIN preOut.rows :
              i < j => /\ preOut.rows[i].ds = NaT => preOut.rows[j].ds = NaT
                       /\ (preOut.rows[i].ds # NaT /\ preOut.rows[j].ds # NaT)
                             => preOut.rows[i].ds <= preOut.rows[j].ds

\* A table given latest date first, with two rows of one date and different
\* Clicks, has been processed: the latest date is now last.
C7_Witness ==
    /\ preOut # NoCall /\ preOut.raised = "none"
    /\ Len(preIn.rows) = 3
    /\ preIn.rows[1].Date = <<2024, 3, 1>>
    /\ preIn.rows[2].Date = <<2023, 12, 31>> /\ preIn.rows[3].Date = <<2023, 12, 31>>
    /\ preIn.rows[2].Clicks # preIn.rows[3].Clicks
    /\ preOut.rows[3].Date = <<2024, 3, 1>>
    /\ preOut.rows[1].y = preIn.rows[3].Clicks

----------------------------------------------------------------------------
(* Claims about the analyzer, checked under SpecAnalyzer.                   *)

\* The rows of the analyzed table on weekday w (1 = Monday) and in calendar
\* month m, their number and the sum of their clicks.
WeekdayRows == [w \in 1..7 |-> SelectSeq(anDf.rows, LAMBDA r : dayofweek(r.ds) + 1 = w)]
MonthRows == [m \in 1..12 |-> SelectSeq(anDf.rows, LAMBDA r : month_of(r.ds) = m)]
Weekdays == {w \in 1..7 : WeekdayRows[w] # <<>>}
Months == {m \in 1..12 : MonthRows[m] # <<>>}
Clicks(rows) == SumSeq(YOf(rows))

RECURSIVE ProductOver(_, _)
ProductOver(S, Rows) ==
    IF S = {} THEN 1
    ELSE LET g == CHOOSE x \in S : TRUE IN Len(Rows[g]) * ProductOver(S \ {g}, Rows)

RECURSIVE ScaledAverages(_, _, _)
ScaledAverages(S, Rows, L) ==
    IF S = {} THEN 0
    ELSE LET g == CHOOSE x \in S : TRUE
         IN Clicks(Rows[g]) * (L \div Len(Rows[g])) + ScaledAverages(S \ {g}, Rows, L)

\* (average of group g / overall mean of y - 1) * 100
DeviationFromOverallMean(g, Rows) ==
    LET sg == Clicks(Rows[g])
        ng == Len(Rows[g])
        s == Clicks(anDf.rows)
        n == Len(anDf.rows)
    IN IF s = 0 THEN NaN ELSE F(100 * (sg * n - ng * s), ng * s)

\* (average of group g / mean of the averages of the groups in G - 1) * 100
DeviationFromMeanOfAverages(g, G, Rows) ==
    LET sg == Clicks(Rows[g])
        ng == Len(Rows[g])
        L == ProductOver(G, Rows)
        A == ScaledAverages(G, Rows, L)
    IN IF A = 0 THEN NaN ELSE F(100 * (sg * L * Cardinality(G) - ng * A), ng * A)

\* C8 as stated: relative_strength of every weekday and month that has rows
\* is the deviation, in percent, of its average clicks from the mean of y
\* over all rows.
C8_RelativeStrengthFromOverallMean ==
    anOut # NoCall =>
        /\ \A w \in Weekdays :
              anOut.results.weekly_pattern.rows[w].relative_strength
                 = DeviationFromOverallMean(w, WeekdayRows)
        /\ \A m \in Months :
              anOut.results.monthly_pattern.rows[m].relative_strength
                 = DeviationFromOverallMean(m, MonthRows)

\* C8, amended: relative_strength of every weekday (month) that has rows is
\* the deviation, in percent, of its average clicks from the unweighted
\* mean of the averages of the weekdays (months) that have rows; that is the
\* deviation from the overall mean of y when those groups all have the same
\* number of rows.
C8_RelativeStrengthFromMeanOfAverages ==
    anOut # NoCall =>
        /\ \A w \in Weekdays :
              /\ anOut.results.weekly_pattern.rows[w].relative_strength
                    = DeviationFromMeanOfAverages(w, Weekdays, WeekdayRows)
              /\ anOut.results.weekly_pattern.rows[w].average_clicks
                    = F(Clicks(WeekdayRows[w]), Len(WeekdayRows[w]))
        /\ \A m \in Months :
              /\ anOut.results.monthly_pattern.rows[m].relative_strength
                    = DeviationFromMeanOfAverages(m, Months, MonthRows)
              /\ anOut.results.monthly_pattern.rows[m].average_clicks
                    = F(Clicks(MonthRows[m]), Len(MonthRows[m]))
        /\ (\A v, w \in Weekdays : Len(WeekdayRows[v]) = Len(WeekdayRows[w]))
              => \A w \in Weekdays :
                    anOut.results.weekly_pattern.rows[w].relative_strength
                       = DeviationFromOverallMean(w, WeekdayRows)
        /\ (\A l, m \in Months : Len(MonthRows[l]) = Len(MonthRows[m]))
              => \A m \in Months :
                    anOut.results.monthly_pattern.rows[m].relative_strength
                       = DeviationFromOverallMean(m, MonthRows)

\* An analysis of a series whose weekdays and months have different numbers
\* of rows, where a weekday's and a month's relative_strength differ from
\* their deviation from the overall mean.
C8_Witness ==
    /\ anOut # NoCall
    /\ \E v, w \in Weekdays : Len(WeekdayRows[v]) # Len(WeekdayRows[w])
    /\ \E l, m \in Months : Len(MonthRows[l]) # Len(MonthRows[m])
    /\ \E w \in Weekdays :
          anOut.results.weekly_pattern.rows[w].relative_strength
             # DeviationFromOverallMean(w, WeekdayRows)
    /\ \E m \in Months :
          anOut.results.monthly_pattern.rows[m].relative_strength
             # DeviationFromOverallMean(m, MonthRows)

\* n^2 times the population variance of y: n * sum(y^2) - (sum y)^2.
VarianceN2 ==
    Len(anDf.rows) * SumSeq([i \in DOMAIN anDf.rows |-> anDf.rows[i].y * anDf.rows[i].y])
       - Clicks(anDf.rows) * Clicks(anDf.rows)

\* n * (y_i - mean), squared.
DeviationN2(i) ==
    (Len(anDf.rows) * anDf.rows[i].y - Clicks(anDf.rows))
       * (Len(anDf.rows) * anDf.rows[i].y - Clicks(anDf.rows))

\* The rows whose distance from the mean exceeds 3.0 population standard
\* deviations: (y - mean)^2 > 9 * variance.
Outliers == {i \in DOMAIN anDf.rows : DeviationN2(i) > 9 * VarianceN2}

\* C9: the reported anomalies are exactly the days whose absolute z-score
\* (distance from the series mean over the population standard deviation)
\* is strictly greater than 3.0, in table order; each entry carries that
\* day's date, its clicks and that z-score; a series of zero variance has
\* no anomalies.
C9_AnomaliesAreRowsBeyondThreeSigma ==
    anOut # NoCall =>
        /\ Len(anOut.results.anomalies) = Cardinality(Outliers)
        /\ \A k \in DOMAIN anOut.results.anomalies :
              LET i == SortedSeq(Outliers)[k]
                  a == anOut.results.anomalies[k]
              IN /\ a.date = anDf.rows[i].ds
                 /\ a.clicks = anDf.rows[i].y
                 /\ a.z_score_sq = F(DeviationN2(i), VarianceN2)
                 /\ a.z_score_sq.n > 9 * a.z_score_sq.d
        /\ VarianceN2 = 0 => anOut.results.anomalies = <<>>

\* A series of MaxSeries days with one day far below the others has been
\* analyzed and that day is its only anomaly.
C9_Witness ==
    /\ anOut # NoCall
    /\ Len(anDf.rows) = MaxSeries
    /\ Len(anOut.results.anomalies) = 1
    /\ anOut.results.anomalies[1].clicks = 0
    /\ anOut.results.anomalies[1].date = anDf.rows[3].ds

----------------------------------------------------------------------------
(* Claims about the whole pipeline, checked under SpecMain.                 *)

ThreeFailureModes == {"ValueError:MissingColumns", "FileNotFoundError", "ValueError:NotFitted"}

\* C10 as stated: a run on a data file that parses as a table ends normally
\* or with one of three failures (a required column is missing, the data
\* file is not found, the model is not fitted), and a table with all five
\* required columns makes no stage fail.
C10_OnlyThreeFailureModes ==
    mainOut # NoCall =>
        /\ mainOut.raised \in ThreeFailureModes \cup {"none"}
        /\ (mainIn.exists /\ required_columns \subseteq mainIn.file.columns)
              => mainOut.raised = "none"

----------------------------------------------------------------------------
(* Claims about the visualizer, checked under SpecViz.                      *)

\* C11 as stated: plot_analysis, on a preprocessed table and the result
\* dictionary analyze produced for it, raises nothing and exports the
\* 'analysis' chart in the enabled formats.
C11_PlotAnalysisRendersAnalysis ==
    (vizLast # NoCall /\ vizLast.op = "plot_analysis") =>
        /\ vizLast.raised = "none"
        /\ vizLast.written = export_figure(vizConfig, "analysis")

----------------------------------------------------------------------------
(* Claims about the dashboard, checked under SpecMain.                      *)

\* The stages of main that precede the charts.
StagesBeforeCharts == {"TrafficDataLoader", "load", "process", "fit", "predict"}

\* C12 as stated, for the pipeline: a run of main that gets as far as the
\* charts writes dashboard.html if and only if create_dashboard is true in
\* the visualizer's configuration.
C12_DashboardWrittenIffEnabled ==
    (mainOut # NoCall /\ mainOut.stage \notin StagesBeforeCharts) =>
        (<<"dashboard", "html">> \in mainOut.files <=> default_config.create_dashboard)

----------------------------------------------------------------------------
(* Claims about the calendar features, checked under SpecCalendar.          *)

\* The weekday of the date y-m-d, 0 = Monday .. 6 = Sunday, by the
\* month-offset method (offsets 0 3 2 5 0 3 5 1 4 6 2 4, Sunday = 0).
WeekdayOf(t) ==
    LET offsets == <<0, 3, 2, 5, 0, 3, 5, 1, 4, 6, 2, 4>>
        y == IF t[2] < 3 THEN t[1] - 1 ELSE t[1]
        sunday0 == (y + (y \div 4) - (y \div 100) + (y \div 400) + offsets[t[2]] + t[3]) % 7
    IN (sunday0 + 6) % 7

\* The number of the last day of month m of year y.
LastDayOf(y, m) ==
    IF m \in {4, 6, 9, 11} THEN 30
    ELSE IF m # 2 THEN 31
    ELSE IF (y % 4 = 0 /\ y % 100 # 0) \/ y % 400 = 0 THEN 29 ELSE 28

\* C13: in every row of the preprocessed table that has a date, day_of_week
\* is the date's weekday (0 = Monday .. 6 = Sunday), is_weekend is 1 on
\* Saturdays and Sundays and 0 otherwise, month and quarter are the date's
\* calendar month and quarter, and is_month_start / is_month_end are 1
\* exactly on the first / last day of the month.
C13_CalendarFeaturesAgreeWithDate ==
    (preOut # NoCall /\ preOut.raised = "none") =>
        \A i \in DOMAIN preOut.rows :
            LET r == preOut.rows[i]
                t == r.Date
            IN t # EmptyCell =>
                /\ r.day_of_week = F(WeekdayOf(t), 1)
                /\ r.is_weekend = (IF WeekdayOf(t) \in {5, 6} THEN 1 ELSE 0)
                /\ r.month = F(t[2], 1)
                /\ r.quarter = F(((t[2] - 1) \div 3) + 1, 1)
                /\ r.is_month_start = (IF t[3] = 1 THEN 1 ELSE 0)
                /\ r.is_month_end = (IF t[3] = LastDayOf(t[1], t[2]) THEN 1 ELSE 0)

\* A row dated 2024-02-29, a Thursday and the last day of a leap-year
\* February, has been processed.
C13_Witness ==
    /\ preOut # NoCall
    /\ preOut.raised = "none"
    /\ Len(preOut.rows) = 1
    /\ preOut.rows[1].Date = <<2024, 2, 29>>
    /\ preOut.rows[1].day_of_week = F(3, 1)
    /\ preOut.rows[1].is_month_end = 1
    /\ preOut.rows[1].is_weekend = 0

----------------------------------------------------------------------------
(* Claims about the derived ratios, checked under SpecPre.                  *)

\* Every Date cell of the raw table is empty or a date that exists.
DatesParse == \A i \in DOMAIN preIn.rows : preIn.rows[i].Date = EmptyCell \/ IsValidDate(preIn.rows[i].Date)

\* C14 as stated: on a table whose dates parse, process does not fail on
\* account of the CTR column; a CTR cell 'N%' or 'N' gives ctr = N/100 and
\* any other cell a missing value; position_impact is 1/Position.
C14_CtrIsFractionOrMissing ==
    (preOut # NoCall /\ DatesParse) =>
        /\ preOut.raised = "none"
        /\ \A i \in DOMAIN preOut.rows :
              LET r == preOut.rows[i]
              IN /\ r.ctr = (IF r.CTR.kind \in {"pct", "num"} THEN F(r.CTR.n, 100) ELSE NaN)
                 /\ r.position_impact = (IF r.Position # 0 THEN F(1, r.Position) ELSE Inf(1))

----------------------------------------------------------------------------
(* Claims about the growth metrics, checked under SpecGrowth.               *)

\* The calendar months (year and month) that have rows, and a month's
\* average clicks.
MonthsWithData == {to_period_M(anDf.rows[i].ds) : i \in DOMAIN anDf.rows}
MonthAverage == [m \in MonthsWithData |->
    LET rs == SelectSeq(anDf.rows, LAMBDA r : to_period_M(r.ds) = m)
    IN FDivInt(Clicks(rs), Len(rs))]

\* The month with data that precedes m among the months with data.
PreviousMonthWithData(m) == SetMax({l \in MonthsWithData : l < m})

\* 100 times the mean of the relative changes avg(m) / avg(Before(m)) - 1
\* over the months m of M, in calendar order; missing when M is empty.
MeanChangePct(M, Before(_)) ==
    LET ms == SortedSeq(M)
    IN FMul(FMean([k \in DOMAIN ms |->
                     FSub(FDiv(MonthAverage[ms[k]], MonthAverage[Before(ms[k])]), F(1, 1))]),
            F(100, 1))

\* C15 as stated: avg_monthly_growth_pct is 100 times the mean of the
\* relative changes between the average clicks of each calendar month and
\* those of the calendar month immediately before it.
C15_GrowthOverAdjacentCalendarMonths ==
    anOut # NoCall =>
        anOut.results.growth_metrics.avg_monthly_growth_pct
           = MeanChangePct({m \in MonthsWithData : m - 1 \in MonthsWithData},
                           LAMBDA m : m - 1)

\* C15, amended: avg_monthly_growth_pct is 100 times the mean of the
\* relative changes between the average clicks of each calendar month (year
\* and month) that has data and those of the previous calendar month that
\* has data, whether or not that is the month immediately before; a series
\* covering a single calendar month yields a missing value.
C15_GrowthOverMonthsWithData ==
    anOut # NoCall =>
        /\ anOut.results.growth_metrics.avg_monthly_growth_pct
              = MeanChangePct({m \in MonthsWithData : \E l \in MonthsWithData : l < m},
                              PreviousMonthWithData)
        /\ Cardinality(MonthsWithData) = 1
              => anOut.results.growth_metrics.avg_monthly_growth_pct = NaN

\* The growth of a series with rows in December 2023 (average 2) and
\* February 2024 (average 6) and none in January 2024 has been computed:
\* 200 percent.
C15_Witness ==
    /\ anOut # NoCall
    /\ Cardinality(MonthsWithData) = 2
    /\ \E m \in MonthsWithData : m + 2 \in MonthsWithData
    /\ anOut.results.growth_metrics.avg_monthly_growth_pct = F(200, 1)

----------------------------------------------------------------------------
(* Claims about the holdout split, checked under SpecSplit.                 *)

\* floor(0.8 * n)
FourFifths(n) == (8 * n) \div 10

\* C16: _split_data returns the first k rows as the train part and the
\* remaining rows as the holdout, in table order, with
\* k = max(len - validation_days, floor(0.8 len)) capped at len; so for
\* validation_days >= 0 the holdout has min(validation_days, len - floor(0.8
\* len)) rows, at most validation_days and at most a fifth of the rows,
\* rounded up.
C16_SplitHoldsOutTheTail ==
    (modelLast # NoCall /\ modelLast.op = "_split_data") =>
        LET n == Len(histDf)
            k == Min(n, Max(n - validation_days, FourFifths(n)))
            train == modelLast.train
            test == modelLast.test
        IN /\ train \o test = histDf
           /\ Len(train) = k
           /\ \A i \in DOMAIN train : train[i] = histDf[i]
           /\ \A j \in DOMAIN test : test[j] = histDf[k + j]
           /\ validation_days >= 0 =>
                 /\ Len(test) = Min(validation_days, n - FourFifths(n))
                 /\ Len(test) <= validation_days
                 /\ 5 * Len(test) < n + 5

\* A table of MaxSplitRows rows dated in descending order has been split
\* with the default validation_days: the holdout is its last two rows.
C16_Witness ==
    /\ modelLast # NoCall
    /\ modelLast.op = "_split_data"
    /\ validation_days = validation_days_default
    /\ Len(histDf) = MaxSplitRows
    /\ histDf[1].ds > histDf[2].ds
    /\ Len(modelLast.test) = MaxSplitRows - FourFifths(MaxSplitRows)
    /\ modelLast.test[1] = histDf[FourFifths(MaxSplitRows) + 1]

----------------------------------------------------------------------------
(* Claims about the order of the pipeline's stages, checked under SpecMain. *)

\* The stages of main in the order the claim gives them, and the files
\* each writes when it completes under Config().
StageOrder ==
    <<"TrafficDataLoader", "load", "process", "fit", "predict", "plot_forecast",
      "plot_components", "plot_analysis", "create_interactive_dashboard", "done">>
StageFiles(stage) ==
    IF stage = "plot_forecast" THEN {<<"forecast", "html">>, <<"forecast", "png">>}
    ELSE IF stage = "plot_components" THEN {<<"components", "html">>, <<"components", "png">>}
    ELSE IF stage = "plot_analysis" THEN {<<"analysis", "html">>, <<"analysis", "png">>}
    ELSE IF stage = "create_interactive_dashboard" THEN {<<"dashboard", "html">>}
    ELSE {}
StageIndex(stage) == CHOOSE k \in DOMAIN StageOrder : StageOrder[k] = stage

\* C17: a run of main ends at the first stage that fails; the files it
\* leaves are exactly those of the stages before that one, in the order
\* load, preprocess, fit, predict, forecast chart, components chart,
\* analysis chart, dashboard, predictions.csv; so predictions.csv is written
\* only by a run in which no stage failed and every chart was written, and
\* a run that fails while loading writes no file.
C17_FailureEndsTheRun ==
    mainOut # NoCall =>
        /\ mainOut.stage \in Range(StageOrder)
        /\ mainOut.raised = "none" <=> mainOut.stage = "done"
        /\ mainOut.stage # "done" =>
              mainOut.files
                 = UNION {StageFiles(StageOrder[k]) : k \in 1..(StageIndex(mainOut.stage) - 1)}
        /\ <<"predictions", "csv">> \in mainOut.files =>
              /\ mainOut.raised = "none"
              /\ \A k \in DOMAIN StageOrder : StageFiles(StageOrder[k]) \subseteq mainOut.files
        /\ mainOut.stage \in {"TrafficDataLoader", "load"} => mainOut.files = {}
        /\ mainOut.stage = "TrafficDataLoader" <=> ~mainIn.exists
        /\ mainOut.stage = "load"
              <=> (mainIn.exists /\ ~(required_columns \subseteq mainIn.file.columns))

\* A run has ended in the analysis chart, after the forecast and components
\* charts were written and before the dashboard and predictions.csv.
C17_Witness ==
    /\ mainOut # NoCall
    /\ mainOut.stage = "plot_analysis"
    /\ mainOut.raised = "KeyError"
    /\ mainOut.files = StageFiles("plot_forecast") \cup StageFiles("plot_components")
    /\ Len(mainIn.file.rows) = MaxMainRows

----------------------------------------------------------------------------
(* Claims about the chart export, checked under SpecViz.                    *)

\* C18: _export_figure(fig, name) writes name.html, name.png, name.svg and
\* name.pdf each exactly when its own export flag is true, and no other
\* file; with the four flags false it writes nothing.
C18_ExportWritesEnabledFormats ==
    (vizLast # NoCall /\ vizLast.op = "_export_figure") =>
        /\ <<vizLast.name, "html">> \in vizLast.written <=> vizConfig.export_html
        /\ <<vizLast.name, "png">> \in vizLast.written <=> vizConfig.export_png
        /\ <<vizLast.name, "svg">> \in vizLast.written <=> vizConfig.export_svg
        /\ <<vizLast.name, "pdf">> \in vizLast.written <=> vizConfig.export_pdf
        /\ vizLast.written \subseteq {vizLast.name} \X {"html", "png", "svg", "pdf"}
        /\ vizLast.written \subseteq vizFiles
        /\ (~vizConfig.export_html /\ ~vizConfig.export_png /\ ~vizConfig.export_svg
              /\ ~vizConfig.export_pdf) => vizLast.written = {}

\* With HTML and PDF disabled and PNG and SVG enabled, the chart 'analysis'
\* has been exported as analysis.png and analysis.svg.
C18_Witness ==
    /\ vizLast # NoCall
    /\ vizLast.op = "_export_figure"
    /\ ~vizConfig.export_html
    /\ ~vizConfig.export_pdf
    /\ vizLast.written = {<<"analysis", "png">>, <<"analysis", "svg">>}

----------------------------------------------------------------------------
(* Claims about the shape of the pattern tables, checked under SpecAnalyzer. *)

\* The weekly table has the 7 rows Monday..Sunday and the monthly table the
\* 12 rows Jan..Dec, in that order; a month without data has
\* average_clicks 0.
PatternTablesHaveFixedRows ==
    /\ [w \in DOMAIN anOut.results.weekly_pattern.rows |->
           anOut.results.weekly_pattern.rows[w].day]
          = <<"Monday", "Tuesday", "Wednesday", "Thursday", "Friday", "Saturday", "Sunday">>
    /\ [m \in DOMAIN anOut.results.monthly_pattern.rows |->
           anOut.results.monthly_pattern.rows[m].month]
          = <<"Jan", "Feb", "Mar", "Apr", "May", "Jun",
              "Jul", "Aug", "Sep", "Oct", "Nov", "Dec">>
    /\ \A m \in (1..12) \ Months :
          anOut.results.monthly_pattern.rows[m].average_clicks = F(0, 1)

\* C19 as stated: the pattern tables have their fixed rows, and a month
\* without data has relative_strength -100.
C19_EmptyMonthIsMinusHundred ==
    anOut # NoCall =>
        /\ PatternTablesHaveFixedRows
        /\ \A m \in (1..12) \ Months :
              anOut.results.monthly_pattern.rows[m].relative_strength = F(-100, 1)

\* C19, amended: the pattern tables have their fixed rows; a month without
\* data has relative_strength -100 when the clicks of the table are not all
\* zero, and a missing value when they are; the divisor of the monthly
\* relative_strength is the mean of the averages of the months with data.
C19_EmptyMonthIsMinusHundredUnlessAllZero ==
    anOut # NoCall =>
        /\ PatternTablesHaveFixedRows
        /\ \A m \in (1..12) \ Months :
              anOut.results.monthly_pattern.rows[m].relative_strength
                 = (IF Clicks(anDf.rows) = 0 THEN NaN ELSE F(-100, 1))
        /\ \A m \in Months :
              anOut.results.monthly_pattern.rows[m].relative_strength
                 = DeviationFromMeanOfAverages(m, Months, MonthRows)

\* A series with rows in February (average 7/5) and March (average 7/3)
\* only has been analyzed: February is at -25, March at +25 and January,
\* which has no rows, at -100 with average 0.
C19_Witness ==
    /\ anOut # NoCall
    /\ Months = {2, 3}
    /\ anOut.results.monthly_pattern.rows[2].relative_strength = F(-25, 1)
    /\ anOut.results.monthly_pattern.rows[3].relative_strength = F(25, 1)
    /\ anOut.results.monthly_pattern.rows[1].relative_strength = F(-100, 1)
    /\ anOut.results.monthly_pattern.rows[1].average_clicks = F(0, 1)

----------------------------------------------------------------------------
(* Claims about the validation metrics, checked under SpecRefit.            *)

\* The metrics are empty or hold exactly mae, mape and rmse.
C20_State ==
    \/ validation_metrics = NoMetrics
    \/ validation_metrics.keys = {"mae", "mape", "rmse"}

\* A fit replaces the metrics, by those of its own holdout, when its holdout
\* is non-empty and the fit on its train part succeeds (at least two rows);
\* any other fit leaves them as they were.
C20_Step ==
    LET n == Len(histDf')
        k == Min(n, Max(n - validation_days', FourFifths(n)))
    IN modelLast'.op = "fit" =>
          IF n - k > 0 /\ k >= 2
          THEN validation_metrics' = [keys |-> {"mae", "mape", "rmse"},
                                      train_rows |-> k, holdout_rows |-> n - k]
          ELSE validation_metrics' = validation_metrics

\* C20: validation_metrics is empty until the first fit whose holdout is
\* non-empty and is replaced only by such a fit, then holding mae, mape and
\* rmse of that fit's holdout; a fit whose holdout is empty or that fails
\* before validation leaves the earlier metrics in place.
C20_MetricsChangeOnlyOnValidation == []C20_State /\ [][C20_Step]_vars

\* After a fit that validated on a holdout, a fit with validation_days = 0
\* on a table of another length has returned: the model held is fitted on
\* that table while the metrics are still those of the earlier fit.
C20_Witness ==
    /\ validation_metrics # NoMetrics
    /\ modelLast # NoCall
    /\ modelLast.op = "fit"
    /\ modelLast.raised = "none"
    /\ validation_days = 0
    /\ model.fitted
    /\ Len(model.history) = Len(histDf)
    /\ Len(histDf) # validation_metrics.train_rows + validation_metrics.holdout_rows

----------------------------------------------------------------------------
(* Claims about the tables a caller passes on, checked under SpecCaller.    *)

\* What a step may do to the caller's tables.
C21_Step ==
    /\ rawDf' = rawDf
    /\ procDf # NoTable =>
          /\ procDf'.rows = procDf.rows
          /\ procDf'.columns = IF analysisOut' # analysisOut
                               THEN procDf.columns \cup {"day_name"}
                               ELSE procDf.columns
    /\ (procDf = NoTable /\ procDf' # NoTable) =>
          /\ produced' # produced
          /\ procDf' = [columns |-> produced'.columns, rows |-> produced'.rows]
    /\ fittedOn' # fittedOn =>
          /\ produced.op = "process"
          /\ fittedOn'.rows = ds_y(produced.rows)

\* C21: process and handle_outliers leave the table passed to them as it
\* was; the only change analyze makes to the table passed to it is the new
\* column day_name; no call changes the rows (ds and y among them) of a
\* table it was given, so the rows fit is given are the rows process
\* returned.
C21_CallsLeaveTheirTablesAlone == [][C21_Step]_vars

\* A raw table of three rows out of date order has been processed, marked
\* for outliers, analysed and fitted on.
C21_Witness ==
    /\ Len(rawDf.rows) = 3
    /\ to_datetime(rawDf.rows[1].Date) > to_datetime(rawDf.rows[3].Date)
    /\ produced # NoCall
    /\ outliersOut # NoCall
    /\ "is_outlier" \in outliersOut.columns
    /\ analysisOut # NoCall
    /\ "day_name" \in procDf.columns
    /\ fittedOn # NoCall
    /\ fittedOn.raised = "none"

----------------------------------------------------------------------------
(* Claims about the two outlier rules, checked under SpecOutliers.          *)

\* The rows handle_outliers marked, and the rows _detect_anomalies reported
\* (by date: the series has one row per day).
MarkedRows == {i \in DOMAIN outliersOut.rows : outliersOut.rows[i].is_outlier}
ReportedRows ==
    {i \in DOMAIN procDf.rows :
        \E k \in DOMAIN analysisOut.anomalies :
            analysisOut.anomalies[k].date = procDf.rows[i].ds}
BothRulesApplied == outliersOut # NoCall /\ analysisOut # NoCall
NoneMissing == \A i \in DOMAIN procDf.rows : IsNum(procDf.rows[i].y)

\* C22 as stated: for every series and the threshold 3.0, every row that
\* handle_outliers marks as an outlier is also reported as an anomaly by
\* _detect_anomalies.
C22_EveryOutlierIsAnAnomaly == BothRulesApplied => MarkedRows \subseteq ReportedRows

\* On a series without missing values the rows marked are among the rows
\* reported, as (n - 1)/n of the population z^2 is the sample z^2.
OutliersAreAnomaliesWhenNoneMissing ==
    (BothRulesApplied /\ NoneMissing) => MarkedRows \subseteq ReportedRows

\* The converse fails: a row is reported by the analyzer and not marked by
\* the preprocessor.
AnomalyThatIsNoOutlier ==
    /\ BothRulesApplied
    /\ ReportedRows \ MarkedRows # {}

\* A series with one missing value: a row is marked by the preprocessor
\* and the analyzer reports nothing.
OutlierThatIsNoAnomaly ==
    /\ BothRulesApplied
    /\ ~NoneMissing
    /\ MarkedRows # {}
    /\ analysisOut.anomalies = <<>>

=============================================================================
